---- MODULE Spec2Model ----
(***************************************************************************)
(* Tool dispatch and orchestration pipeline of hello-github-actions.       *)
(*                                                                         *)
(*   SuiteSpec  UnifiedTestOrchestrator.execute_full_stack_test_suite      *)
(*   SmokeSpec  UnifiedTestOrchestrator.run_smoke_test_suite               *)
(*   JiraSpec   mcp_client_caller.execute_jira / execute_jira_instructions *)
(*   ScriptSpec browser_navigator_server.generate_playwright_script        *)
(*   KarateSpec KarateMCPServer.handle_tool_call                           *)
(*                                                                         *)
(* Python values are modelled as records: a dict is the set of its         *)
(* <<key, value>> items, None is a value of its own.  The kind runners,    *)
(* the tool dispatch (mcp_client.call_tool) and the file system are the    *)
(* environment: each call either returns one of a small set of values or   *)
(* raises.  An await is a step boundary.                                   *)
(***************************************************************************)
EXTENDS Integers, Sequences, FiniteSets, TLC

VARIABLES
    \* ---- execute_full_stack_test_suite
    pc,                  \* position of the handler: idle, gather, seq, done
    requested,           \* run_web_tests / run_api_tests / run_integration_tests
    parallel_execution,  \* the parallel_execution argument
    tasks,               \* per kind: the runner coroutine (state, outcome)
    execution_results,   \* the execution_results dict (slots per kind)
    started,             \* kinds in the order their runners began to run
    suite_ret,           \* the value returned by the handler
    \* ---- run_smoke_test_suite
    smoke_pc,            \* idle, gather, done
    smoke_selected,      \* include_critical_apis / include_critical_web_flows
    smoke_parallel,      \* its parallel_execution argument
    smoke_tasks,         \* per runner: the coroutine (state, outcome)
    smoke_results,       \* the smoke_results dict
    smoke_ret,           \* the value returned by the handler
    \* ---- execute_jira
    jira_pc,             \* the await execute_jira is suspended at, idle or done
    jira_json,           \* jira_json["steps"]: the parsed instructions
    url,                 \* the primary URL found in the ticket text, <<>> for None
    results,             \* the results dict: status and steps (the action trace)
    loop_i,              \* enumerate index i of execute_jira_instructions, from 1
    call,                \* the tool call awaited by the instruction loop
    dispatches,          \* every call_tool made and every return, in order
    actions,             \* the actions handed to generate_playwright_script
    \* ---- generate_playwright_script
    scripts_dir,         \* the generated_scripts directory: path -> file content
    calls,               \* the calls of the tool so far: arguments, date, file written
    \* ---- KarateMCPServer.handle_tool_call
    handled,             \* the tool calls handled so far: name, arguments, result
    processes            \* the commands of the test processes started so far

suite_vars == <<pc, requested, parallel_execution, tasks, execution_results,
                started, suite_ret>>
smoke_vars == <<smoke_pc, smoke_selected, smoke_parallel, smoke_tasks,
                smoke_results, smoke_ret>>
jira_vars == <<jira_pc, jira_json, url, results, loop_i, call, dispatches, actions>>
script_vars == <<scripts_dir, calls>>
karate_vars == <<handled, processes>>
vars == <<suite_vars, smoke_vars, jira_vars, script_vars, karate_vars>>

(***************************************************************************)
(* Python values                                                           *)
(***************************************************************************)
None == [tag |-> "None", items |-> {}]

Dict(items) == [tag |-> "dict", items |-> items]

\* bool(r) of `if r`: None and the empty dict are falsy
Truthy(r) == r.tag = "dict" /\ r.items # {}

\* r.get(key): the value under key, or "None" when the key is absent
Get(r, key) ==
    IF \E it \in r.items : it[1] = key
    THEN (CHOOSE it \in r.items : it[1] = key)[2]
    ELSE "None"

\* the outcome of awaiting a coroutine: a returned value or a raised Exception
Returned(v) == [t |-> "return", v |-> v, msg |-> ""]
Raised(msg) == [t |-> "raise", v |-> None, msg |-> msg]
NoOutcome   == [t |-> "none", v |-> None, msg |-> ""]

(***************************************************************************)
(* Text.  A Python str is modelled as the sequence of its symbols: a word, *)
(* a punctuation mark, a URL, or one white-space character.  Substring     *)
(* tests, split, strip and replace work on symbols as the str methods work *)
(* on characters.                                                          *)
(***************************************************************************)
Space == " "
Newline == "\n"
\* the four characters backslash r backslash n, as they stand in the text
EscapedCRLF == "\\r\\n"
Whitespace == {Space, Newline}

\* the start of a URL as the regex https?:// finds it
UrlSymbols == {"https://example.com/home", "http://app.test",
               "https://jira.example.com"}

\* str.lower() symbol by symbol
LowerSymbol(c) ==
    CASE c = "Navigate" -> "navigate"
      [] c = "Click" -> "click"
      [] c = "Take" -> "take"
      [] c = "Check" -> "check"
      [] c = "Enter" -> "enter"
      [] c = "Sign" -> "sign"
      [] c = "Error:" -> "error:"
      [] c = "Error" -> "error"
      [] c = "Failed" -> "failed"
      [] c = "Status:" -> "status:"
      [] c = "Response:" -> "response:"
      [] c = "PROJ-1:" -> "proj-1:"
      [] c = "No" -> "no"
      [] c = "Open" -> "open"
      [] c = "Setup" -> "setup"
      [] c = "Jira" -> "jira"
      [] c = "PROJ-1" -> "proj-1"
      [] c = "Authentication" -> "authentication"
      [] c = "Please" -> "please"
      [] c = "JIRA_API_TOKEN." -> "jira_api_token."
      [] c = "JIRA_API_TOKEN" -> "jira_api_token"
      [] c = "JIRA_BASE_URL:" -> "jira_base_url:"
      [] c = "Request" -> "request"
      [] c = "Connection" -> "connection"
      [] c = "Missing" -> "missing"
      [] c = "Make" -> "make"
      [] OTHER -> c

Lower(s) == [i \in DOMAIN s |-> LowerSymbol(s[i])]

\* pat in s
Contains(s, pat) ==
    \E i \in 1..(Len(s) - Len(pat) + 1) : SubSeq(s, i, i + Len(pat) - 1) = pat

StartsWith(s, pat) == Len(s) >= Len(pat) /\ SubSeq(s, 1, Len(pat)) = pat
EndsWith(s, pat) ==
    Len(s) >= Len(pat) /\ SubSeq(s, Len(s) - Len(pat) + 1, Len(s)) = pat

\* s.strip()
RECURSIVE LStrip(_)
LStrip(s) == IF s # <<>> /\ Head(s) \in Whitespace THEN LStrip(Tail(s)) ELSE s
RECURSIVE RStripSet(_, _)
RStripSet(s, cs) ==
    IF s # <<>> /\ s[Len(s)] \in cs THEN RStripSet(SubSeq(s, 1, Len(s) - 1), cs) ELSE s
Strip(s) == RStripSet(LStrip(s), Whitespace)

\* s.replace(pat, rep), pat not empty
RECURSIVE Replace(_, _, _)
Replace(s, pat, rep) ==
    IF s = <<>> THEN <<>>
    ELSE IF StartsWith(s, pat)
    THEN rep \o Replace(SubSeq(s, Len(pat) + 1, Len(s)), pat, rep)
    ELSE <<Head(s)>> \o Replace(Tail(s), pat, rep)

\* s.split(sep): the list of the pieces between the occurrences of sep
RECURSIVE SplitFrom(_, _, _)
SplitFrom(s, sep, piece) ==
    IF s = <<>> THEN <<piece>>
    ELSE IF StartsWith(s, sep)
    THEN <<piece>> \o SplitFrom(SubSeq(s, Len(sep) + 1, Len(s)), sep, <<>>)
    ELSE SplitFrom(Tail(s), sep, Append(piece, Head(s)))
Split(s, sep) == SplitFrom(s, sep, <<>>)

\* s.split(): the white-space separated words
RECURSIVE WordsFrom(_, _)
WordsFrom(s, word) ==
    IF s = <<>> THEN (IF word = <<>> THEN <<>> ELSE <<word>>)
    ELSE IF Head(s) \in Whitespace
    THEN (IF word = <<>> THEN <<>> ELSE <<word>>) \o WordsFrom(Tail(s), <<>>)
    ELSE WordsFrom(Tail(s), Append(word, Head(s)))
Words(s) == WordsFrom(s, <<>>)

\* the longest prefix of s with no symbol of stop
RECURSIVE TakeUntil(_, _)
TakeUntil(s, stop) ==
    IF s = <<>> \/ Head(s) \in stop THEN <<>>
    ELSE <<Head(s)>> \o TakeUntil(Tail(s), stop)

\* re.search(r"https?://[^\s<stop>]+", s).group(0), or <<>> for no match:
\* from the first URL start on, up to white space or a symbol of stop
RECURSIVE SearchUrl(_, _)
SearchUrl(s, stop) ==
    IF s = <<>> THEN <<>>
    ELSE IF Head(s) \in UrlSymbols
    THEN <<Head(s)>> \o TakeUntil(Tail(s), Whitespace \cup stop)
    ELSE SearchUrl(Tail(s), stop)

(***************************************************************************)
(* execute_jira: ticket text, parsing, classification                      *)
(***************************************************************************)
\* the most lines a ticket description holds
MaxLines == 2

\* lines a ticket description is made of
Corpus == {
    <<"#", Space, "Navigate", Space, "to", Space, "[", "https://example.com/home", "]">>,
    <<"Navigate", Space, "to", Space, "http://app.test", Space, "and", Space,
      "click", Space, "login">>,
    <<"Click", Space, "sign", Space, "in">>,
    <<"Click", Space, "here">>,
    <<"Take", Space, "the", Space, "screenshot", Space, "and", Space, "click",
      Space, "submit">>,
    <<"Click", Space, "the", Space, "screenshot", Space, "tab">>,
    <<"Check", Space, "for", Space, "dashboard", Space, "then", Space, "stop">>,
    <<"Navigate", Space, "to", Space, "http://app.test", Space, "and", Space,
      "check", Space, "for", Space, "dashboard">>,
    <<"Open", Space, "http://app.test", Space, "now">>,
    <<"#", "#", Space, "Setup">>,
    <<"Enter", Space, "username">> }

\* the descriptions the ticket system may hold: up to MaxLines lines, each
\* ended by an escaped line break
RECURSIVE Descriptions(_)
Descriptions(n) ==
    IF n = 0 THEN {<<>>}
    ELSE Descriptions(n - 1)
         \cup {d \o l \o <<EscapedCRLF>> : d \in Descriptions(n - 1) \ {<<>>}, l \in Corpus}
         \cup {l \o <<EscapedCRLF>> : l \in Corpus}

TicketTexts == Descriptions(MaxLines)

\* the first character of every error message of fetch_jira_story (U+274C)
CrossMark == "<cross mark>"
\* the two characters backslash n
EscapedLF == "\\n"

\* what fetch_jira_story returns instead of a description when it fails:
\* missing environment variables, 401, 404, another status that is not 200
\* (500 with the body "boom", 403 with an empty body), timeout, connection
\* error, any other exception (response.json() raising "bad json")
ErrorTexts == {
    <<CrossMark, Space, "Missing", Space, "environment", Space, "variables:", Space,
      "JIRA_API_TOKEN", EscapedLF, "Make", Space, "sure", Space, "these", Space,
      "are", Space, "set", Space, "in", Space, "your", Space, ".env", Space, "file.">>,
    <<CrossMark, Space, "Authentication", Space, "failed.", Space, "Please", Space,
      "check", Space, "your", Space, "JIRA_API_TOKEN.">>,
    <<CrossMark, Space, "Jira", Space, "ticket", Space, "PROJ-1", Space, "not", Space,
      "found.">>,
    <<CrossMark, Space, "Request", Space, "timed", Space, "out", Space, "while", Space,
      "fetching", Space, "PROJ-1">>,
    <<CrossMark, Space, "Connection", Space, "error.", Space, "Please", Space,
      "check", Space, "your", Space, "JIRA_BASE_URL:", Space,
      "https://jira.example.com">>,
    <<CrossMark, Space, "Failed", Space, "to", Space, "fetch", Space, "Jira", Space,
      "story.", Space, "Status:", Space, "500,", Space, "Response:", Space, "boom">>,
    <<CrossMark, Space, "Failed", Space, "to", Space, "fetch", Space, "Jira", Space,
      "story.", Space, "Status:", Space, "403,", Space, "Response:", Space>>,
    <<CrossMark, Space, "Error", Space, "fetching", Space, "Jira", Space, "story",
      Space, "PROJ-1:", Space, "bad", Space, "json">> }

\* the texts fetch_jira_story may return: a description, an error text,
\* the default "No description available" of a ticket that has no
\* description field, and no text at all (<<>>) for a ticket whose
\* description is null, for which the tool returns None
FetchTexts ==
    TicketTexts \cup ErrorTexts
    \cup {<<"No", Space, "description", Space, "available">>, <<>>}

Quotes == {"'", "\""}

\* re.search(r"text=['\"]([^'\"]+)['\"]", str(jira_result)).group(1);
\* <<>> stands for no match
ExtractText(text) == TakeUntil(text, Quotes)

\* the clean-up of one line of the description
CleanLine(raw) ==
    LET stripped == Strip(raw)
        unheaded ==
            IF StartsWith(stripped, <<"#", Space>>)
            THEN Strip(SubSeq(stripped, 3, Len(stripped)))
            ELSE IF StartsWith(stripped, <<"#">>)
            THEN Strip(SubSeq(stripped, 2, Len(stripped)))
            ELSE stripped
        spaced == Strip(Replace(unheaded, <<"\\xa0">>, <<Space>>))
        nav == <<"Navigate", Space, "to", Space>>
    IN  IF stripped = <<>> THEN <<>>
        ELSE IF StartsWith(spaced, nav \o <<"[">>) /\ EndsWith(spaced, <<"]">>)
        THEN RStripSet(Replace(spaced, nav \o <<"[">>, nav), {"]"})
        ELSE spaced

\* the steps list built from jira_text: one instruction per non-empty line
ParseSteps(jira_text) ==
    LET raw_lines == Split(Replace(jira_text, <<EscapedCRLF>>, <<Newline>>), <<Newline>>)
        cleaned == [n \in DOMAIN raw_lines |-> CleanLine(raw_lines[n])]
    IN  SelectSeq(cleaned, LAMBDA line : line # <<>>)

\* the primary URL: the first URL of the text, cut at an end-of-url marker
ExtractUrl(jira_text) ==
    LET found == SearchUrl(jira_text, {})
        unslashed == IF EndsWith(found, <<"\\">>)
                     THEN SubSeq(found, 1, Len(found) - 1) ELSE found
    IN  TakeUntil(unslashed, {"\"", "'", ")", "]", "}", ",", ";"})

\* extract_click_target; <<>> stands for None and for the empty string
ButtonWords == {"button", "link", "tab", "menu"}

ExtractClickTarget(instruction) ==
    LET instruction_lower == Lower(instruction)
        after == Split(instruction_lower, <<"click", Space, "on">>)
        words == Words(instruction)
        hits == {n \in DOMAIN words :
                    \E m \in DOMAIN words[n] : LowerSymbol(words[n][m]) \in ButtonWords}
        first == CHOOSE n \in hits : \A m \in hits : n <= m
    IN  IF Contains(instruction_lower, <<"sign", Space, "in">>)
        THEN <<"sign", Space, "in", Space, "button">>
        ELSE IF Contains(instruction_lower, <<"microsoft", Space, "account">>)
        THEN <<"Microsoft", Space, "Account", Space, "button">>
        ELSE IF Contains(instruction_lower, <<"login">>)
        THEN <<"login", Space, "button">>
        ELSE IF Contains(instruction_lower, <<"submit">>)
        THEN <<"submit", Space, "button">>
        ELSE IF Contains(instruction_lower, <<"click", Space, "on">>)
        THEN Strip(after[2])
        ELSE IF hits # {} THEN words[first]
        ELSE <<>>

\* extract_verification_target
ExtractVerificationTarget(instruction) ==
    LET instruction_lower == Lower(instruction)
        target == Strip(Split(instruction_lower, <<"check", Space, "for">>)[2])
        cut1 == IF Contains(target, <<Space, "and", Space, "then">>)
                THEN Split(target, <<Space, "and", Space, "then">>)[1] ELSE target
        cut2 == IF Contains(cut1, <<Space, "then">>)
                THEN Split(cut1, <<Space, "then">>)[1] ELSE cut1
    IN  IF Contains(instruction_lower, <<"check", Space, "for">>)
        THEN cut2 ELSE instruction

\* the branch of the if / elif chain of execute_jira_instructions that an
\* instruction takes
ClassifyUnknownAsCheck(instruction) ==
    LET low == Lower(instruction)
    IN  IF \/ Contains(low, <<"take", Space, "a", Space, "screenshot">>)
           \/ Contains(low, <<"take", Space, "the", Space, "screenshot">>)
        THEN "screenshot"
        ELSE IF Contains(low, <<"click">>) THEN "click"
        ELSE IF Contains(low, <<"navigate", Space, "to">>) THEN "navigate to"
        ELSE "check for"
ClassifyNavigateSecond(instruction) ==
    LET low == Lower(instruction)
    IN  IF \/ Contains(low, <<"take", Space, "a", Space, "screenshot">>)
           \/ Contains(low, <<"take", Space, "the", Space, "screenshot">>)
        THEN "screenshot"
        ELSE IF /\ Contains(low, <<"navigate", Space, "to">>)
                /\ SearchUrl(instruction, {"]"}) # <<>>
        THEN "navigate to"
        ELSE IF Contains(low, <<"click">>) THEN "click"
        ELSE IF Contains(low, <<"check", Space, "for">>) THEN "check for"
        ELSE "none"
ClassifyClickFirst(instruction) ==
    LET low == Lower(instruction)
    IN  IF Contains(low, <<"click">>) THEN "click"
        ELSE IF \/ Contains(low, <<"take", Space, "a", Space, "screenshot">>)
                \/ Contains(low, <<"take", Space, "the", Space, "screenshot">>)
        THEN "screenshot"
        ELSE IF Contains(low, <<"check", Space, "for">>) THEN "check for"
        ELSE IF Contains(low, <<"navigate", Space, "to">>) THEN "navigate to"
        ELSE "none"
Classify(instruction) ==
    LET low == Lower(instruction)
    IN  IF \/ Contains(low, <<"take", Space, "a", Space, "screenshot">>)
           \/ Contains(low, <<"take", Space, "the", Space, "screenshot">>)
        THEN "screenshot"
        ELSE IF Contains(low, <<"click">>) THEN "click"
        ELSE IF Contains(low, <<"check", Space, "for">>) THEN "check for"
        ELSE IF Contains(low, <<"navigate", Space, "to">>) THEN "navigate to"
        ELSE "none"

(***************************************************************************)
(* execute_full_stack_test_suite                                           *)
(***************************************************************************)
\* the order in which the handler looks at the kinds
Kinds == <<"web", "api", "integration">>
KindSet == {Kinds[i] : i \in DOMAIN Kinds}

\* what a kind runner (_execute_web_tests, ...) may hand back: the stub's
\* success summary, a summary with failed assertions, an error summary,
\* a summary without a status, an empty summary, or nothing
RunnerResults == {
    Dict({<<"status", "success">>}),
    Dict({<<"status", "failed">>}),
    Dict({<<"status", "error">>, <<"message", "runner error">>}),
    Dict({<<"tests_run", "0">>}),
    Dict({}),
    None }

RunnerOutcomes == {Returned(v) : v \in RunnerResults} \cup {Raised("boom")}

NoTask == [state |-> "none", out |-> NoOutcome]

EmptyResults == [web_results |-> None, api_results |-> None,
                 integration_results |-> None, overall_status |-> "running"]

NoReturn == [keys |-> {}, status |-> "None", message |-> "None",
             web_results |-> None, api_results |-> None,
             integration_results |-> None, overall_status |-> "None",
             unified_report |-> "None"]

\* return {"status": "error", "message": str(e)}
ErrorReturn(msg) == [NoReturn EXCEPT !.keys = {"status", "message"},
                                     !.status = "error", !.message = msg]

Slot(kind) == IF kind = "web" THEN "web_results"
              ELSE IF kind = "api" THEN "api_results"
              ELSE "integration_results"

\* results[i] if not isinstance(results[i], Exception)
\*            else {"status": "error", "message": str(results[i])}
SlotValue(out) ==
    IF out.t = "raise"
    THEN Dict({<<"status", "error">>, <<"message", out.msg>>})
    ELSE out.v

\* the list asyncio.gather(*tasks, return_exceptions=True) returns: one
\* outcome per appended task, in the order the tasks were appended
RECURSIVE GatherResults(_, _, _)
GatherResults(run, tk, i) ==
    IF i > Len(Kinds) THEN <<>>
    ELSE (IF run[Kinds[i]] THEN <<tk[Kinds[i]].out>> ELSE <<>>)
         \o GatherResults(run, tk, i + 1)

\* a walk that never advances result_index
RECURSIVE ProcessResultsFixedIndex(_, _, _, _, _)
ProcessResultsFixedIndex(er, run, gathered, i, result_index) ==
    IF i > Len(Kinds) THEN er
    ELSE IF run[Kinds[i]]
    THEN ProcessResultsFixedIndex(
             [er EXCEPT ![Slot(Kinds[i])] = SlotValue(gathered[result_index])],
             run, gathered, i + 1, result_index)
    ELSE ProcessResultsFixedIndex(er, run, gathered, i + 1, result_index)

\* "Process results": walk the kinds with result_index
RECURSIVE ProcessResults(_, _, _, _, _)
ProcessResults(er, run, gathered, i, result_index) ==
    IF i > Len(Kinds) THEN er
    ELSE IF run[Kinds[i]]
    THEN ProcessResults(
             [er EXCEPT ![Slot(Kinds[i])] = SlotValue(gathered[result_index])],
             run, gathered, i + 1, result_index + 1)
    ELSE ProcessResults(er, run, gathered, i + 1, result_index)

\* "Calculate overall status"
OverallStatusAnySuccess(er) ==
    LET all_results == {r \in {er.web_results, er.api_results,
                               er.integration_results} : Truthy(r)}
    IN  IF \E r \in all_results : Get(r, "status") = "success" THEN "success"
        ELSE IF \E r \in all_results : Get(r, "status") = "error" THEN "failed"
        ELSE "partial_success"
OverallStatusTwoWay(er) ==
    LET all_results == {r \in {er.web_results, er.api_results,
                               er.integration_results} : Truthy(r)}
    IN  IF \A r \in all_results : Get(r, "status") = "success" THEN "success"
        ELSE "failed"
OverallStatus(er) ==
    LET all_results == {r \in {er.web_results, er.api_results,
                               er.integration_results} : Truthy(r)}
    IN  IF \A r \in all_results : Get(r, "status") = "success" THEN "success"
        ELSE IF \E r \in all_results : Get(r, "status") = "error" THEN "failed"
        ELSE "partial_success"

\* the tail of the handler: overall status, the unified report (whose
\* writing may raise into the outer except), the returned dict
Finish(er, report, report_ok) ==
    LET done == [er EXCEPT !.overall_status = OverallStatus(er)]
    IN  IF report /\ ~report_ok THEN ErrorReturn("report")
        ELSE [keys |-> {"suite_name", "started_at", "web_results", "api_results",
                        "integration_results", "overall_status", "completed_at"}
                       \cup (IF report THEN {"unified_report"} ELSE {}),
              status |-> "None", message |-> "None",
              web_results |-> done.web_results,
              api_results |-> done.api_results,
              integration_results |-> done.integration_results,
              overall_status |-> done.overall_status,
              unified_report |-> IF report THEN "unified_report.html" ELSE "None"]

\* the next requested kind at or after position i, or 0
RECURSIVE NextRequested(_, _)
NextRequested(run, i) ==
    IF i > Len(Kinds) THEN 0
    ELSE IF run[Kinds[i]] THEN i ELSE NextRequested(run, i + 1)

IndexOf(kind) == CHOOSE i \in DOMAIN Kinds : Kinds[i] = kind

SuiteInit ==
    /\ pc = "idle"
    /\ requested = [k \in KindSet |-> FALSE]
    /\ parallel_execution = FALSE
    /\ tasks = [k \in KindSet |-> NoTask]
    /\ execution_results = EmptyResults
    /\ started = <<>>
    /\ suite_ret = NoReturn

\* the call, up to the first await
ExecuteFullStackTestSuite ==
    /\ pc = "idle"
    /\ \E exists \in BOOLEAN, run \in [KindSet -> BOOLEAN], par \in BOOLEAN,
          report \in BOOLEAN, report_ok \in BOOLEAN :
         /\ requested' = run
         /\ parallel_execution' = par
         /\ started' = <<>>
         /\ IF ~exists
            THEN /\ suite_ret' = ErrorReturn("not found")
                 /\ pc' = "done"
                 /\ UNCHANGED <<tasks, execution_results>>
            ELSE /\ IF \A k \in KindSet : ~run[k]
                    THEN /\ execution_results' = [EmptyResults EXCEPT
                                !.overall_status = OverallStatus(EmptyResults)]
                         /\ suite_ret' = Finish(EmptyResults, report, report_ok)
                         /\ pc' = "done"
                         /\ UNCHANGED tasks
                    ELSE /\ execution_results' = EmptyResults
                         /\ suite_ret' = NoReturn
                         /\ pc' = IF par THEN "gather" ELSE "seq"
                         /\ tasks' = [k \in KindSet |->
                                        IF run[k]
                                        THEN [state |-> "pending", out |-> NoOutcome]
                                        ELSE NoTask]
    /\ UNCHANGED <<smoke_vars, jira_vars, script_vars, karate_vars>>

\* a runner coroutine begins to run: any gathered one in parallel mode, in
\* sequential mode the one the handler awaits next
MayStart(kind) ==
    /\ tasks[kind].state = "pending"
    /\ \/ pc = "gather"
       \/ /\ pc = "seq"
          /\ \A k \in KindSet : tasks[k].state # "running"
          /\ \A k \in KindSet : tasks[k].state = "pending"
                                   => IndexOf(kind) <= IndexOf(k)

RunnerStart(kind) ==
    /\ MayStart(kind)
    /\ tasks' = [tasks EXCEPT ![kind].state = "running"]
    /\ started' = Append(started, kind)
    /\ UNCHANGED <<pc, requested, parallel_execution, execution_results, suite_ret>>
    /\ UNCHANGED <<smoke_vars, jira_vars, script_vars, karate_vars>>

\* asyncio.gather(*tasks, return_exceptions=True): an exception of a task is
\* a result like any other; with False the first one is raised to the awaiter
FirstExceptionPropagates == FALSE
ReturnExceptions == TRUE

\* parallel mode: a gathered runner settles
RunnerSettle(kind) ==
    /\ pc = "gather"
    /\ tasks[kind].state = "running"
    /\ \E out \in RunnerOutcomes :
         /\ tasks' = [tasks EXCEPT ![kind] = [state |-> "done", out |-> out]]
         /\ IF out.t = "raise" /\ ~ReturnExceptions
            THEN /\ suite_ret' = ErrorReturn(out.msg)
                 /\ pc' = "done"
            ELSE UNCHANGED <<pc, suite_ret>>
    /\ UNCHANGED <<requested, parallel_execution, execution_results, started>>
    /\ UNCHANGED <<smoke_vars, jira_vars, script_vars, karate_vars>>

\* parallel mode: every gathered runner has settled, gather returns
GatherReturn ==
    /\ pc = "gather"
    /\ \A k \in KindSet : requested[k] => tasks[k].state = "done"
    /\ \E report \in BOOLEAN, report_ok \in BOOLEAN :
         LET gathered == GatherResults(requested, tasks, 1)
             er == ProcessResults(execution_results, requested, gathered, 1, 1)
         IN  /\ execution_results' = [er EXCEPT !.overall_status = OverallStatus(er)]
             /\ suite_ret' = Finish(er, report, report_ok)
    /\ pc' = "done"
    /\ UNCHANGED <<requested, parallel_execution, tasks, started>>
    /\ UNCHANGED <<smoke_vars, jira_vars, script_vars, karate_vars>>

\* what a raising runner does to the sequential branch: the exception leaves
\* the handler through `except Exception as e`
SeqRaiseAborts(kind, out) == out.t = "raise"

\* sequential mode: the awaited runner returns or raises
SeqRunnerReturn(kind) ==
    /\ pc = "seq"
    /\ tasks[kind].state = "running"
    /\ \E out \in RunnerOutcomes, report \in BOOLEAN, report_ok \in BOOLEAN :
         /\ tasks' = [tasks EXCEPT ![kind] = [state |-> "done", out |-> out]]
         /\ IF SeqRaiseAborts(kind, out)
            THEN /\ suite_ret' = ErrorReturn(out.msg)
                 /\ pc' = "done"
                 /\ UNCHANGED execution_results
            ELSE LET er == [execution_results EXCEPT ![Slot(kind)] = SlotValue(out)]
                 IN  IF NextRequested(requested, IndexOf(kind) + 1) = 0
                     THEN /\ execution_results' =
                                 [er EXCEPT !.overall_status = OverallStatus(er)]
                          /\ suite_ret' = Finish(er, report, report_ok)
                          /\ pc' = "done"
                     ELSE /\ execution_results' = er
                          /\ suite_ret' = NoReturn
                          /\ pc' = "seq"
    /\ UNCHANGED <<requested, parallel_execution, started>>
    /\ UNCHANGED <<smoke_vars, jira_vars, script_vars, karate_vars>>

SuiteNext ==
    \/ ExecuteFullStackTestSuite
    \/ \E kind \in KindSet : RunnerStart(kind)
    \/ \E kind \in KindSet : RunnerSettle(kind)
    \/ GatherReturn
    \/ \E kind \in KindSet : SeqRunnerReturn(kind)

(***************************************************************************)
(* run_smoke_test_suite                                                    *)
(***************************************************************************)
\* the runners in the order they are appended to tasks
SmokeSet == {"api", "web"}

\* the most check entries a runner's list holds
MaxChecks == 2

\* a check entry is its "status"; a runner hands back a list of entries
CheckLists == UNION {[1..n -> {"passed", "failed"}] : n \in 0..MaxChecks}

SmokeReturned(list) == [t |-> "return", list |-> list]
NoSmokeOutcome      == [t |-> "none", list |-> <<>>]
SmokeOutcomes == {SmokeReturned(l) : l \in CheckLists} \cup {[t |-> "raise", list |-> <<>>]}

NoSmokeTask == [state |-> "none", out |-> NoSmokeOutcome]

EmptySmokeResults == [api_health_checks |-> <<>>, web_smoke_tests |-> <<>>,
                      overall_health |-> "unknown"]

NoSmokeReturn == [keys |-> {}, status |-> "None",
                  api_health_checks |-> <<>>, web_smoke_tests |-> <<>>,
                  overall_health |-> "None"]

SmokeSlot(runner) == IF runner = "api" THEN "api_health_checks"
                     ELSE "web_smoke_tests"

\* a slot that keeps a failed entry for a runner that raised
SmokeSlotValueFailedEntry(out) == IF out.t = "raise" THEN <<"failed">> ELSE out.list

\* results[i] if not isinstance(results[i], Exception) else []
SmokeSlotValue(out) == IF out.t = "raise" THEN <<>> ELSE out.list

\* "Determine overall health"
OverallHealth(sr) ==
    IF /\ \A i \in DOMAIN sr.api_health_checks : sr.api_health_checks[i] = "passed"
       /\ \A i \in DOMAIN sr.web_smoke_tests : sr.web_smoke_tests[i] = "passed"
    THEN "healthy" ELSE "unhealthy"

\* return smoke_results
SmokeReturn(sr) ==
    [keys |-> {"environment", "started_at", "api_health_checks",
               "web_smoke_tests", "overall_health", "completed_at"},
     status |-> "None",
     api_health_checks |-> sr.api_health_checks,
     web_smoke_tests |-> sr.web_smoke_tests,
     overall_health |-> OverallHealth(sr)]

\* except asyncio.TimeoutError: return {"status": "timeout", "message": ...,
\* "environment": ...}; tk are the gathered runners as the timeout found them
TimeoutReturnKeepsCompleted(tk) ==
    [keys |-> {"status", "message", "environment"}
              \cup {SmokeSlot(r) : r \in {q \in SmokeSet : tk[q].state = "done"}},
     status |-> "timeout",
     api_health_checks |-> SmokeSlotValue(tk["api"].out),
     web_smoke_tests |-> SmokeSlotValue(tk["web"].out),
     overall_health |-> "None"]
TimeoutReturn(tk) ==
    [NoSmokeReturn EXCEPT !.keys = {"status", "message", "environment"},
                          !.status = "timeout"]

\* a handler that gathers the selected runners in either mode
GathersInEitherMode(par, sel) == \E r \in SmokeSet : sel[r]

\* if parallel_execution and tasks
Gathers(par, sel) == par /\ (\E r \in SmokeSet : sel[r])

SmokeInit ==
    /\ smoke_pc = "idle"
    /\ smoke_selected = [r \in SmokeSet |-> FALSE]
    /\ smoke_parallel = FALSE
    /\ smoke_tasks = [r \in SmokeSet |-> NoSmokeTask]
    /\ smoke_results = EmptySmokeResults
    /\ smoke_ret = NoSmokeReturn

\* the call, up to the await of wait_for (the coroutines appended to tasks
\* are created here and run only once gathered)
RunSmokeTestSuite ==
    /\ smoke_pc = "idle"
    /\ \E sel \in [SmokeSet -> BOOLEAN], par \in BOOLEAN :
         /\ smoke_selected' = sel
         /\ smoke_parallel' = par
         /\ smoke_tasks' = [r \in SmokeSet |->
                              IF sel[r]
                              THEN [state |-> "pending", out |-> NoSmokeOutcome]
                              ELSE NoSmokeTask]
         /\ IF Gathers(par, sel)
            THEN /\ smoke_pc' = "gather"
                 /\ smoke_results' = EmptySmokeResults
                 /\ smoke_ret' = NoSmokeReturn
            ELSE /\ smoke_pc' = "done"
                 /\ smoke_results' = [EmptySmokeResults EXCEPT
                        !.overall_health = OverallHealth(EmptySmokeResults)]
                 /\ smoke_ret' = SmokeReturn(EmptySmokeResults)
    /\ UNCHANGED <<suite_vars, jira_vars, script_vars, karate_vars>>

SmokeRunnerStart(runner) ==
    /\ smoke_pc = "gather"
    /\ smoke_tasks[runner].state = "pending"
    /\ smoke_tasks' = [smoke_tasks EXCEPT ![runner].state = "running"]
    /\ UNCHANGED <<smoke_pc, smoke_selected, smoke_parallel, smoke_results, smoke_ret>>
    /\ UNCHANGED <<suite_vars, jira_vars, script_vars, karate_vars>>

SmokeRunnerSettle(runner) ==
    /\ smoke_pc = "gather"
    /\ smoke_tasks[runner].state = "running"
    /\ \E out \in SmokeOutcomes :
         smoke_tasks' = [smoke_tasks EXCEPT ![runner] = [state |-> "done", out |-> out]]
    /\ UNCHANGED <<smoke_pc, smoke_selected, smoke_parallel, smoke_results, smoke_ret>>
    /\ UNCHANGED <<suite_vars, jira_vars, script_vars, karate_vars>>

\* every gathered runner has settled within max_execution_time
SmokeGatherReturn ==
    /\ smoke_pc = "gather"
    /\ \A r \in SmokeSet : smoke_selected[r] => smoke_tasks[r].state = "done"
    /\ LET sr == [r \in SmokeSet |->
                    IF smoke_selected[r] THEN SmokeSlotValue(smoke_tasks[r].out)
                    ELSE <<>>]
           filled == [EmptySmokeResults EXCEPT !.api_health_checks = sr["api"],
                                               !.web_smoke_tests = sr["web"]]
       IN  /\ smoke_results' = [filled EXCEPT !.overall_health = OverallHealth(filled)]
           /\ smoke_ret' = SmokeReturn(filled)
    /\ smoke_pc' = "done"
    /\ UNCHANGED <<smoke_selected, smoke_parallel, smoke_tasks>>
    /\ UNCHANGED <<suite_vars, jira_vars, script_vars, karate_vars>>

\* max_execution_time elapses while a gathered runner is still unfinished:
\* wait_for cancels the gather, which cancels its unfinished runners, and
\* waits for the cancellation to finish.  The handler stays suspended at the
\* await: nothing is returned yet.
SmokeTimeout ==
    /\ smoke_pc = "gather"
    /\ \E r \in SmokeSet : smoke_selected[r] /\ smoke_tasks[r].state # "done"
    /\ \A r \in SmokeSet : smoke_tasks[r].state # "cancelled"
    /\ smoke_tasks' = [r \in SmokeSet |->
                         IF smoke_tasks[r].state \in {"pending", "running"}
                         THEN [smoke_tasks[r] EXCEPT !.state = "cancelled"]
                         ELSE smoke_tasks[r]]
    /\ UNCHANGED <<smoke_pc, smoke_selected, smoke_parallel, smoke_results, smoke_ret>>
    /\ UNCHANGED <<suite_vars, jira_vars, script_vars, karate_vars>>

\* the cancelled gather has finished: wait_for raises TimeoutError into the
\* handler, whose except branch returns the timeout dict
SmokeTimeoutReturn ==
    /\ smoke_pc = "gather"
    /\ \E r \in SmokeSet : smoke_tasks[r].state = "cancelled"
    /\ smoke_ret' = TimeoutReturn(smoke_tasks)
    /\ smoke_pc' = "done"
    /\ UNCHANGED <<smoke_selected, smoke_parallel, smoke_tasks, smoke_results>>
    /\ UNCHANGED <<suite_vars, jira_vars, script_vars, karate_vars>>

SmokeNext ==
    \/ RunSmokeTestSuite
    \/ \E runner \in SmokeSet : SmokeRunnerStart(runner)
    \/ \E runner \in SmokeSet : SmokeRunnerSettle(runner)
    \/ SmokeGatherReturn
    \/ SmokeTimeout
    \/ SmokeTimeoutReturn

(***************************************************************************)
(* execute_jira and execute_jira_instructions                              *)
(***************************************************************************)
\* a key that a dict does not hold
Absent == "<absent>"

\* an entry of results["steps"].  The field i is not in the program's dict:
\* it names the instruction (enumerate index + 1) the entry was appended for,
\* 0 for an entry of execute_jira itself.
StepRecord(step, status) ==
    [step |-> step, status |-> status, i |-> 0, instruction |-> <<>>,
     selector |-> Absent, value |-> Absent, name |-> Absent, url |-> <<>>,
     target |-> <<>>, error |-> Absent, message |-> Absent]

\* results["steps"].append(record)
PrependStep(steps, record) == <<record>> \o steps
OverwriteLastStep(steps, record) ==
    IF steps = <<>> THEN <<record>>
    ELSE [steps EXCEPT ![Len(steps)] = record]
AppendStep(steps, record) == Append(steps, record)

\* a tool call of the instruction loop that has not returned yet
NoCall == [tool |-> "None", branch |-> "none", i |-> 0, selector |-> Absent,
           name |-> Absent, url |-> <<>>, target |-> <<>>]

\* a loop that clicks on the target itself, with no selector inference
RECURSIVE NextAwaitClickDirect(_, _)
NextAwaitClickDirect(instructions, i) ==
    IF i > Len(instructions) THEN [NoCall EXCEPT !.i = i]
    ELSE LET instruction == Strip(instructions[i])
             branch == Classify(instruction)
         IN  IF branch = "click" /\ ExtractClickTarget(instruction) # <<>>
             THEN [NoCall EXCEPT !.tool = "playwright_click", !.branch = branch,
                                 !.i = i, !.selector = "#login",
                                 !.target = ExtractClickTarget(instruction)]
             ELSE IF branch = "check for"
             THEN [NoCall EXCEPT !.tool = "playwright_screenshot", !.branch = branch,
                                 !.i = i,
                                 !.name = "verification_step_" \o ToString(i),
                                 !.target = ExtractVerificationTarget(instruction)]
             ELSE NextAwaitClickDirect(instructions, i + 1)

\* the loop of execute_jira_instructions from index i up to its next
\* call_tool; tool "None" with i = Len + 1 when the loop ends without one
RECURSIVE NextAwait(_, _)
NextAwait(instructions, i) ==
    IF i > Len(instructions) THEN [NoCall EXCEPT !.i = i]
    ELSE LET instruction == Strip(instructions[i])
             branch == Classify(instruction)
             click_target == ExtractClickTarget(instruction)
             nav_url == SearchUrl(instruction, {"]"})
         IN  IF instruction = <<>> THEN NextAwait(instructions, i + 1)
             ELSE IF branch = "screenshot"
             THEN [NoCall EXCEPT !.tool = "playwright_screenshot", !.branch = branch,
                                 !.i = i,
                                 !.name = "step_" \o ToString(i) \o "_screenshot"]
             ELSE IF branch = "click" /\ click_target # <<>>
             THEN [NoCall EXCEPT !.tool = "extract_selector_by_page_content",
                                 !.branch = branch, !.i = i, !.target = click_target]
             ELSE IF branch = "check for"
             THEN [NoCall EXCEPT !.tool = "playwright_screenshot", !.branch = branch,
                                 !.i = i,
                                 !.name = "verification_step_" \o ToString(i),
                                 !.target = ExtractVerificationTarget(instruction)]
             ELSE IF branch = "navigate to" /\ nav_url # <<>>
             THEN [NoCall EXCEPT !.tool = "playwright_navigate", !.branch = branch,
                                 !.i = i, !.url = nav_url]
             ELSE NextAwait(instructions, i + 1)

\* except Exception as e: the error is recorded (by the caller of this
\* operator) and the for loop goes on with the next instruction
AfterRaiseLeaveLoop(instructions, i) == [NoCall EXCEPT !.i = Len(instructions) + 1]
AfterRaiseRetry(instructions, i) == NextAwait(instructions, i)
AfterRaise(instructions, i) == NextAwait(instructions, i + 1)

\* what extract_selector_by_page_content hands back: structuredContent with
\* a "result", or only text content, or neither
SelectorResults == {
    [structured |-> "#login", text |-> Absent],
    [structured |-> "Error: no match", text |-> Absent],
    [structured |-> "", text |-> Absent],
    [structured |-> Absent, text |-> ".menu"],
    [structured |-> Absent, text |-> Absent] }

\* extract_selector_from_result; "None" stands for None
ExtractSelectorFromResult(selector_result) ==
    IF selector_result.structured # Absent THEN selector_result.structured
    ELSE IF selector_result.text # Absent THEN selector_result.text
    ELSE "None"

\* selector_text and not selector_text.startswith("Error")
SelectorUsableIgnoresError(selector_text) ==
    selector_text \notin {"None", ""}
SelectorUsable(selector_text) ==
    selector_text \notin {"None", "", "Error: no match"}

\* the outcomes of a tool call: it returns (a selector result for the
\* selector tool) or raises
ToolReturned(r) == [t |-> "return", selector_result |-> r]
ToolRaised == [t |-> "raise", selector_result |-> [structured |-> Absent, text |-> Absent]]
ToolOutcomes(tool) ==
    IF tool = "extract_selector_by_page_content"
    THEN {ToolReturned(r) : r \in SelectorResults} \cup {ToolRaised}
    ELSE {ToolReturned([structured |-> Absent, text |-> Absent]), ToolRaised}

\* an event of the dispatch log; result is the selector text that a selector
\* inference handed back, Absent for every other event
Dispatch(ev, tool, i) == [ev |-> ev, tool |-> tool, i |-> i, result |-> Absent]

\* an action of the script to generate
Action(type) == [type |-> type, url |-> <<>>, selector |-> Absent,
                 value |-> Absent, name |-> Absent, timeout |-> Absent,
                 assertion |-> Absent]

\* "Collect all the actions performed during the test"
RECURSIVE StepActionsAllClicks(_)
StepActionsAllClicks(steps) ==
    IF steps = <<>> THEN <<>>
    ELSE LET step == Head(steps)
             one == IF step.step = "playwright_click"
                    THEN <<[Action("click") EXCEPT !.selector = step.selector]>>
                    ELSE <<>>
         IN  one \o StepActionsAllClicks(Tail(steps))
\* a collection that also replays the navigations and the screenshots
RECURSIVE StepActionsWithScreenshots(_)
StepActionsWithScreenshots(steps) ==
    IF steps = <<>> THEN <<>>
    ELSE LET step == Head(steps)
             one == IF step.step = "playwright_click" /\ step.selector # Absent
                    THEN <<[Action("click") EXCEPT !.selector = step.selector]>>
                    ELSE IF step.step = "playwright_navigate"
                    THEN <<[Action("navigate") EXCEPT !.url = step.url]>>
                    ELSE IF step.step \in {"playwright_screenshot", "verification_screenshot"}
                    THEN <<[Action("screenshot") EXCEPT !.name = step.name]>>
                    ELSE <<>>
         IN  one \o StepActionsWithScreenshots(Tail(steps))
RECURSIVE StepActions(_)
StepActions(steps) ==
    IF steps = <<>> THEN <<>>
    ELSE LET step == Head(steps)
             one == IF step.step = "playwright_click" /\ step.selector # Absent
                    THEN <<[Action("click") EXCEPT !.selector = step.selector]>>
                    ELSE IF /\ step.step = "playwright_fill"
                            /\ step.selector # Absent /\ step.value # Absent
                    THEN <<[Action("fill") EXCEPT !.selector = step.selector,
                                                  !.value = step.value]>>
                    ELSE IF step.step = "playwright_hover" /\ step.selector # Absent
                    THEN <<[Action("click") EXCEPT !.selector = step.selector]>>
                    ELSE IF /\ step.step = "playwright_select"
                            /\ step.selector # Absent /\ step.value # Absent
                    THEN <<[Action("select") EXCEPT !.selector = step.selector,
                                                    !.value = step.value]>>
                    ELSE <<>>
         IN  one \o StepActions(Tail(steps))

BuildActionsNoFinalScreenshot(steps, primary_url) ==
    <<[Action("navigate") EXCEPT !.url = primary_url]>>
    \o StepActions(steps)
BuildActionsNoNavigate(steps, primary_url) ==
    StepActions(steps)
    \o <<[Action("screenshot") EXCEPT !.name = "jira_key_final"]>>
BuildActions(steps, primary_url) ==
    <<[Action("navigate") EXCEPT !.url = primary_url]>>
    \o StepActions(steps)
    \o <<[Action("screenshot") EXCEPT !.name = "jira_key_final"]>>

(***************************************************************************)
(* generate_playwright_script                                              *)
(*                                                                         *)
(* A file is a sequence of lines.  A line is the text of the source's      *)
(* template with the values put into its braces, each value a sequence of  *)
(* symbols.                                                                *)
(***************************************************************************)
\* a brace pair that holds a name is the place of a value of args, in the
\* order of args; every other brace stands for itself
Line(t, args) == [t |-> t, args |-> args]
Blank == Line("", <<>>)

\* the symbols c for which c.isalnum() holds
AlnumSymbols == {"login", "test", "smoke", "script", "PROJ", "1"}

\* "".join(c if c.isalnum() else "_" for c in script_name)
Sanitize(script_name) ==
    [n \in DOMAIN script_name |->
        IF script_name[n] \in AlnumSymbols THEN script_name[n] ELSE "_"]

\* the actions used when none are given
DefaultActions(page_url) ==
    <<[Action("navigate") EXCEPT !.url = page_url],
      [Action("screenshot") EXCEPT !.name = "page_loaded"]>>

\* the opening of the test, up to "try {"
Header(script_name, description, headless, current_date) ==
    <<Blank,
      Line("// {script_name}.ts", <<script_name>>),
      Line("// Generated on: {current_date}", <<<<current_date>>>>),
      Line("// Description: {description}", <<description>>),
      Blank,
      Line("import { test, expect } from '@playwright/test';", <<>>),
      Blank,
      Line("test('{script_name}', async ({ page }) => {", <<script_name>>),
      Line("  // Test configuration", <<>>),
      Line("  const headless = {str(headless).lower()};",
           <<<<IF headless THEN "true" ELSE "false">>>>),
      Blank,
      Line("  console.log('Starting test: {script_name}');", <<script_name>>),
      Blank,
      Line("  try {", <<>>)>>

\* the lines added for the action at enumerate index i (from 0)
ActionLines(action, i, page_url) ==
    LET action_type == LowerSymbol(action.type)
        action_url == IF action.url # <<>> THEN action.url ELSE page_url
        selector == <<IF action.selector # Absent THEN action.selector ELSE "">>
        value == <<IF action.value # Absent THEN action.value ELSE "">>
        name == <<IF action.name # Absent THEN action.name
                  ELSE "screenshot_" \o ToString(i)>>
        timeout == <<IF action.timeout # Absent THEN action.timeout ELSE "1000">>
        assertion == <<IF action.assertion # Absent THEN action.assertion
                       ELSE "toBeVisible">>
    IN  CASE action_type = "navigate" ->
               <<Line("    // Navigate to URL", <<>>),
                 Line("    console.log('Navigating to {action_url}');", <<action_url>>),
                 Line("    await page.goto('{action_url}', { waitUntil: 'networkidle' });",
                      <<action_url>>),
                 Line("    console.log('Navigation complete');", <<>>),
                 Blank>>
          [] action_type = "click" ->
               <<Line("    // Click element", <<>>),
                 Line("    console.log('Clicking on {selector}');", <<selector>>),
                 Line("    await page.waitForSelector('{selector}', { state: 'visible' });",
                      <<selector>>),
                 Line("    await page.click('{selector}');", <<selector>>),
                 Blank>>
          [] action_type = "fill" ->
               <<Line("    // Fill form field", <<>>),
                 Line("    console.log('Filling {selector} with value');", <<selector>>),
                 Line("    await page.waitForSelector('{selector}', { state: 'visible' });",
                      <<selector>>),
                 Line("    await page.fill('{selector}', '{value}');", <<selector, value>>),
                 Blank>>
          [] action_type = "screenshot" ->
               <<Line("    // Take screenshot", <<>>),
                 Line("    console.log('Taking screenshot: {name}');", <<name>>),
                 Line("    await page.screenshot({ path: './screenshots/{name}.png', fullPage: true });",
                      <<name>>),
                 Blank>>
          [] action_type = "select" ->
               <<Line("    // Select dropdown option", <<>>),
                 Line("    console.log('Selecting {value} from {selector}');",
                      <<value, selector>>),
                 Line("    await page.selectOption('{selector}', '{value}');",
                      <<selector, value>>),
                 Blank>>
          [] action_type = "wait" ->
               <<Line("    // Wait for specified timeout", <<>>),
                 Line("    console.log('Waiting for {timeout}ms');", <<timeout>>),
                 Line("    await page.waitForTimeout({timeout});", <<timeout>>),
                 Blank>>
          [] action_type = "expect" ->
               <<Line("    // Assert element state", <<>>),
                 Line("    console.log('Expecting {selector} to {assertion}');",
                      <<selector, assertion>>),
                 Line("    await expect(page.locator('{selector}')).{assertion}();",
                      <<selector, assertion>>),
                 Blank>>
          [] OTHER -> <<>>

\* for i, action in enumerate(actions): typescript_code += ...
RECURSIVE ActionsCode(_, _, _)
ActionsCode(action_list, i, page_url) ==
    IF i >= Len(action_list) THEN <<>>
    ELSE ActionLines(action_list[i + 1], i, page_url)
         \o ActionsCode(action_list, i + 1, page_url)

\* the closing of the test; "<backquote>" is the character U+0060, which
\* opens and closes the template literal of the second line:
\* console.error(<backquote>Test failed: ${error}<backquote>);
Footer(script_name) ==
    <<Line("  } catch (error) {", <<>>),
      Line("    console.error({backquote}Test failed: ${lbrace}error{rbrace}{backquote});",
           <<<<"<backquote>">>, <<"{">>, <<"}">>, <<"<backquote>">>>>),
      Line("    // Take screenshot on failure", <<>>),
      Line("    await page.screenshot({", <<>>),
      Line("      path: './screenshots/{script_name}_failure.png',", <<script_name>>),
      Line("      fullPage: true", <<>>),
      Line("    });", <<>>),
      Line("    throw error;", <<>>),
      Line("  }", <<>>),
      Line("  ", <<>>),
      Line("  console.log('Test completed successfully: {script_name}');", <<script_name>>),
      Line("});", <<>>)>>

\* typescript_code, for the sanitized script_name
TypescriptCode(script_name, page_url, action_list, description, headless, current_date) ==
    Header(script_name, description, headless, current_date)
    \o ActionsCode(IF action_list = <<>> THEN DefaultActions(page_url) ELSE action_list,
                   0, page_url)
    \o Footer(script_name)

\* the files of the generated_scripts directory
ConfigPath == <<"playwright.config.ts">>
ReadmePath == <<"README.md">>
PackagePath == <<"package.json">>
ScriptPath(script_name) == script_name \o <<".spec.ts">>

\* what the tool writes into the files it creates once
ConfigCode == <<Line("config_code", <<>>)>>
PackageJson == <<Line("package_json", <<>>)>>
\* a playwright.config.ts and a package.json that were in the directory
\* before the first call
CustomConfig == <<Line("export default defineConfig({ testDir: './e2e' });", <<>>)>>
CustomPackage == <<Line("{ \"name\": \"my-tests\", \"private\": true }", <<>>)>>
\* path.exists() is false
NoFile == <<Line("<no file>", <<>>)>>

\* if not path.exists(): with open(path, "w") as f: f.write(content)
WriteAlways(dir, path, content) == [dir EXCEPT ![path] = content]
WriteIfAbsent(dir, path, content) ==
    IF dir[path] = NoFile THEN [dir EXCEPT ![path] = content] ELSE dir

\* with open(script_path, "w") as script_file: script_file.write(typescript_code)
WriteScriptAppend(dir, path, content) ==
    [dir EXCEPT ![path] = IF @ = NoFile THEN content ELSE @ \o content]
WriteScript(dir, path, content) == [dir EXCEPT ![path] = content]

\* the number of characters of a text
RECURSIVE Chars(_)
Chars(text) ==
    IF text = <<>> THEN 0
    ELSE LET c == Head(text)
         IN  Chars(Tail(text))
             + (CASE c \in {"_", "1"} -> 1
                  [] c \in {"test", "PROJ"} -> 4
                  [] c \in {"login", "smoke"} -> 5
                  [] c = "script" -> 6
                  [] c = ".spec.ts" -> 8)

\* the value of "type" in an action whose type is not a str (a number, null):
\* action.get("type", "").lower() raises AttributeError
NotAString == "<not a str>"

\* the writes of the tool, in the order of the source.  The action types are
\* read before the first write, so a type that is not a str ends the call
\* with nothing written.  open(script_path, "w") raises OSError for a file
\* name of more than 255 characters: the call then ends after the writes of
\* playwright.config.ts and README.md, before that of package.json.
GenerateFiles(dir, script_path, action_list, typescript_code) ==
    IF \E n \in DOMAIN action_list : action_list[n].type = NotAString
    THEN [returned |-> "error", dir |-> dir]
    ELSE LET supported == WriteIfAbsent(
                              WriteIfAbsent(dir, ConfigPath, ConfigCode),
                              ReadmePath, <<Line("readme_content", <<>>)>>)
         IN  IF Chars(script_path) > 255
             THEN [returned |-> "error", dir |-> supported]
             ELSE [returned |-> "generated",
                   dir |-> WriteIfAbsent(
                               WriteScript(supported, script_path, typescript_code),
                               PackagePath, PackageJson)]

\* the arguments of a call of the tool
Request(script_name, page_url, action_list, description, headless) ==
    [script_name |-> script_name, url |-> page_url, actions |-> action_list,
     description |-> description, headless |-> headless]

\* the calls the tool is given
Requests == {
    Request(<<"login", "-", "test">>, <<"http://app.test">>, <<>>,
            <<"login">>, FALSE),
    Request(<<"login", Space, "test">>, <<"http://app.test">>,
            <<[Action("Click") EXCEPT !.selector = "#login"],
              Action("screenshot"),
              Action("scroll")>>,
            <<"login">>, TRUE),
    Request(<<"smoke">>, <<"http://app.test">>,
            <<Action("navigate"),
              [Action("fill") EXCEPT !.selector = "#user", !.value = "alice"],
              [Action("select") EXCEPT !.selector = "#role", !.value = "admin"],
              Action("wait"),
              [Action("expect") EXCEPT !.selector = ".menu"],
              [Action("screenshot") EXCEPT !.name = "done"]>>,
            <<"smoke">>, FALSE),
    \* an action whose type is a number
    Request(<<"login", "-", "test">>, <<"http://app.test">>,
            <<Action("navigate"), Action(NotAString)>>,
            <<"login">>, FALSE),
    \* a script name of 258 letters
    Request([n \in 1..43 |-> "script"], <<"http://app.test">>, <<>>,
            <<"smoke">>, FALSE) }

\* the days datetime.now() may fall on
Dates == {"2026-10-30", "2026-10-31"}

\* the most calls of the tool that are followed
MaxCalls == 3

\* the call execute_jira makes
JiraKey == <<"PROJ", "-", "1">>
JiraRequest(script_actions, primary_url) ==
    Request(JiraKey \o <<"_", "test", "_", "script">>, primary_url, script_actions,
            <<"Automated", Space, "test", Space, "for", Space, "JIRA", Space>> \o JiraKey,
            FALSE)

Paths ==
    {ConfigPath, ReadmePath, PackagePath}
    \cup {ScriptPath(Sanitize(r.script_name)) : r \in Requests}
    \cup {ScriptPath(Sanitize(JiraRequest(<<>>, <<>>).script_name))}

EmptyDir == [path \in Paths |-> NoFile]

\* the directory before the first call: empty, or holding a hand-written
\* playwright.config.ts, a hand-written package.json, or both
InitialDirs ==
    {[EmptyDir EXCEPT ![ConfigPath] = config, ![PackagePath] = package] :
        config \in {NoFile, CustomConfig}, package \in {NoFile, CustomPackage}}

ScriptInit ==
    /\ scripts_dir \in InitialDirs
    /\ calls = <<>>

\* the body of the tool for one call on one day: try ... return the success
\* message, except Exception: return the error message.  The entry of calls
\* holds what the call returned and the script file it wrote (none when it
\* failed).
Generate(request, current_date) ==
    LET script_name == Sanitize(request.script_name)
        script_path == ScriptPath(script_name)
        typescript_code == TypescriptCode(script_name, request.url, request.actions,
                                          request.description, request.headless,
                                          current_date)
        written == GenerateFiles(scripts_dir, script_path, request.actions,
                                 typescript_code)
    IN  /\ scripts_dir' = written.dir
        /\ calls' = Append(calls, [request |-> request,
                                   current_date |-> current_date,
                                   script_path |-> script_path,
                                   returned |-> written.returned,
                                   script_file |-> IF written.returned = "generated"
                                                   THEN written.dir[script_path]
                                                   ELSE NoFile])

\* a call of the tool
GeneratePlaywrightScript ==
    /\ Len(calls) < MaxCalls
    /\ \E request \in Requests, current_date \in Dates :
         Generate(request, current_date)
    /\ UNCHANGED <<suite_vars, smoke_vars, jira_vars, karate_vars>>

ScriptNext == GeneratePlaywrightScript

JiraInit ==
    /\ jira_pc = "idle"
    /\ jira_json = <<>>
    /\ url = <<>>
    /\ results = [status |-> "None", steps |-> <<>>, error |-> Absent,
                  jira_description |-> <<>>]
    /\ loop_i = 0
    /\ call = NoCall
    /\ dispatches = <<>>
    /\ actions = <<>>

\* except Exception as e (of execute_jira): results["status"] = "error"
JiraErrorKeepsStatus(msg) ==
    /\ results' = [results EXCEPT !.error = msg]
    /\ jira_pc' = "done"
JiraError(msg) ==
    /\ results' = [results EXCEPT !.status = "error", !.error = msg]
    /\ jira_pc' = "done"

\* the call, up to await mcp_client.connect()
ExecuteJira ==
    /\ jira_pc = "idle"
    /\ results' = [status |-> "started", steps |-> <<>>, error |-> Absent,
                   jira_description |-> <<>>]
    /\ jira_pc' = "connect"
    /\ UNCHANGED <<jira_json, url, loop_i, call, dispatches, actions>>
    /\ UNCHANGED <<suite_vars, smoke_vars, script_vars, karate_vars>>

ConnectReturn ==
    /\ jira_pc = "connect"
    /\ \E ok \in BOOLEAN :
         IF ok
         THEN /\ results' = [results EXCEPT !.steps =
                    AppendStep(@, StepRecord("connect", "success"))]
              /\ jira_pc' = "get_tools"
         ELSE JiraError("connect")
    /\ UNCHANGED <<jira_json, url, loop_i, call, dispatches, actions>>
    /\ UNCHANGED <<suite_vars, smoke_vars, script_vars, karate_vars>>

GetToolsReturn ==
    /\ jira_pc = "get_tools"
    /\ \E ok \in BOOLEAN :
         IF ok
         THEN /\ results' = [results EXCEPT !.steps =
                    AppendStep(@, StepRecord("get_tools", "success"))]
              /\ dispatches' = Append(dispatches, Dispatch("call", "fetch_jira_story", 0))
              /\ jira_pc' = "fetch"
         ELSE /\ JiraError("get_available_tools")
              /\ UNCHANGED dispatches
    /\ UNCHANGED <<jira_json, url, loop_i, call, actions>>
    /\ UNCHANGED <<suite_vars, smoke_vars, script_vars, karate_vars>>

\* a run without URL that ends with no record of the missing URL
CompleteWithoutUrlSilently(steps, jira_text) ==
    /\ results' = [results EXCEPT !.jira_description = jira_text,
                                  !.steps = steps, !.status = "completed"]
    /\ jira_pc' = "done"

\* script generation is skipped, the workflow is marked completed
CompleteWithoutUrl(steps, jira_text) ==
    /\ results' = [results EXCEPT
            !.jira_description = jira_text,
            !.steps = AppendStep(steps, [StepRecord("url_extraction", "failure")
                                           EXCEPT !.message =
                                              "No URL found in JIRA description"]),
            !.status = "completed"]
    /\ jira_pc' = "done"

\* fetch_jira_story returns the description (or raises): the text is
\* extracted and parsed, the primary URL is looked for, and the navigation
\* to it is dispatched
FetchReturn ==
    /\ jira_pc = "fetch"
    /\ \E raised \in BOOLEAN, description \in FetchTexts :
         IF raised
         THEN /\ JiraError("fetch_jira_story")
              /\ dispatches' = Append(dispatches, Dispatch("raise", "fetch_jira_story", 0))
              /\ UNCHANGED <<jira_json, url>>
         ELSE LET jira_text == ExtractText(description)
                  steps == AppendStep(results.steps,
                                      StepRecord("fetch_jira_story", "success"))
                  found == ExtractUrl(jira_text)
              IN  /\ jira_json' = ParseSteps(jira_text)
                  /\ url' = found
                  /\ IF found # <<>>
                     THEN /\ results' = [results EXCEPT !.steps = steps,
                                                        !.jira_description = jira_text]
                          /\ dispatches' = dispatches \o
                                <<Dispatch("return", "fetch_jira_story", 0),
                                  Dispatch("call", "playwright_navigate", 0)>>
                          /\ jira_pc' = "navigate"
                     ELSE /\ CompleteWithoutUrl(steps, jira_text)
                          /\ dispatches' = Append(dispatches,
                                Dispatch("return", "fetch_jira_story", 0))
    /\ UNCHANGED <<loop_i, call, actions>>
    /\ UNCHANGED <<suite_vars, smoke_vars, script_vars, karate_vars>>

\* the navigation to the primary URL returns; the first screenshot is dispatched
NavigateReturn ==
    /\ jira_pc = "navigate"
    /\ \E ok \in BOOLEAN :
         IF ok
         THEN /\ results' = [results EXCEPT !.steps =
                    AppendStep(@, [StepRecord("playwright_navigate", "success")
                                     EXCEPT !.url = url])]
              /\ dispatches' = dispatches \o
                    <<Dispatch("return", "playwright_navigate", 0),
                      Dispatch("call", "playwright_screenshot", 0)>>
              /\ jira_pc' = "screenshot"
         ELSE /\ JiraError("playwright_navigate")
              /\ dispatches' = Append(dispatches, Dispatch("raise", "playwright_navigate", 0))
    /\ UNCHANGED <<jira_json, url, loop_i, call, actions>>
    /\ UNCHANGED <<suite_vars, smoke_vars, script_vars, karate_vars>>

\* execute_jira_instructions has run up to `next`: either it awaits a tool
\* call, or it has returned and execute_jira dispatches the script generation
Proceed(steps, next, log) ==
    /\ results' = [results EXCEPT !.steps = steps]
    /\ loop_i' = next.i
    /\ call' = next
    /\ IF next.tool # "None"
       THEN /\ dispatches' = Append(log, Dispatch("call", next.tool, next.i))
            /\ jira_pc' = "instructions"
            /\ UNCHANGED actions
       ELSE /\ dispatches' = Append(log, Dispatch("call", "generate_playwright_script", 0))
            /\ actions' = BuildActions(steps, url)
            /\ jira_pc' = "script"

\* the first screenshot returns; execute_jira_instructions is entered
ScreenshotReturn ==
    /\ jira_pc = "screenshot"
    /\ \E ok \in BOOLEAN :
         IF ok
         THEN Proceed(AppendStep(results.steps,
                                 [StepRecord("playwright_screenshot", "success")
                                    EXCEPT !.name = "jira_key_screenshot"]),
                      NextAwait(jira_json, 1),
                      Append(dispatches, Dispatch("return", "playwright_screenshot", 0)))
         ELSE /\ JiraError("playwright_screenshot")
              /\ dispatches' = Append(dispatches,
                                      Dispatch("raise", "playwright_screenshot", 0))
              /\ UNCHANGED <<loop_i, call, actions>>
    /\ UNCHANGED <<jira_json, url>>
    /\ UNCHANGED <<suite_vars, smoke_vars, script_vars, karate_vars>>

\* the entry appended when the awaited call of an instruction returned
ReturnRecord(c, instruction) ==
    LET base == [StepRecord("None", "success") EXCEPT !.i = c.i,
                                                      !.instruction = instruction]
    IN  IF c.tool = "playwright_click"
        THEN [base EXCEPT !.step = "playwright_click", !.selector = c.selector,
                          !.target = c.target]
        ELSE IF c.tool = "playwright_navigate"
        THEN [base EXCEPT !.step = "playwright_navigate", !.url = c.url]
        ELSE IF c.branch = "check for"
        THEN [base EXCEPT !.step = "verification_screenshot", !.name = c.name,
                          !.target = c.target]
        ELSE [base EXCEPT !.step = "playwright_screenshot", !.name = c.name]

\* the tool call awaited by the instruction loop returns or raises
InstructionReturn ==
    /\ jira_pc = "instructions"
    /\ \E out \in ToolOutcomes(call.tool) :
         LET instruction == Strip(jira_json[call.i])
             selector_text == ExtractSelectorFromResult(out.selector_result)
             returned == Append(dispatches,
                            [Dispatch("return", call.tool, call.i) EXCEPT !.result =
                                IF call.tool = "extract_selector_by_page_content"
                                THEN selector_text ELSE Absent])
         IN  IF out.t = "raise"
             THEN Proceed(AppendStep(results.steps,
                              [StepRecord("instruction_execution", "error")
                                 EXCEPT !.i = call.i, !.instruction = instruction,
                                        !.error = "raised"]),
                          AfterRaise(jira_json, call.i),
                          Append(dispatches, Dispatch("raise", call.tool, call.i)))
             ELSE IF call.tool = "extract_selector_by_page_content"
             THEN IF SelectorUsable(selector_text)
                  THEN Proceed(results.steps,
                               [call EXCEPT !.tool = "playwright_click",
                                            !.selector = selector_text],
                               returned)
                  ELSE Proceed(AppendStep(results.steps,
                                   [StepRecord("playwright_click", "failed")
                                      EXCEPT !.i = call.i, !.instruction = instruction,
                                             !.target = call.target,
                                             !.error = "Element not found"]),
                               NextAwait(jira_json, call.i + 1),
                               returned)
             ELSE Proceed(AppendStep(results.steps, ReturnRecord(call, instruction)),
                          NextAwait(jira_json, call.i + 1),
                          returned)
    /\ UNCHANGED <<jira_json, url>>
    /\ UNCHANGED <<suite_vars, smoke_vars, script_vars, karate_vars>>

\* generate_playwright_script returns, having written its files, or the call
\* raises without having reached the tool; the workflow is completed
ScriptReturn ==
    /\ jira_pc = "script"
    /\ \E ok \in BOOLEAN :
         /\ results' = [results EXCEPT
                !.steps = AppendStep(@,
                    IF ok THEN StepRecord("generate_playwright_script", "success")
                    ELSE [StepRecord("generate_playwright_script", "error")
                            EXCEPT !.error = "raised"]),
                !.status = "completed"]
         /\ dispatches' = Append(dispatches,
                Dispatch(IF ok THEN "return" ELSE "raise", "generate_playwright_script", 0))
         /\ IF ok
            THEN \E current_date \in Dates :
                    Generate(JiraRequest(actions, url), current_date)
            ELSE UNCHANGED script_vars
    /\ jira_pc' = "done"
    /\ UNCHANGED <<jira_json, url, loop_i, call, actions>>
    /\ UNCHANGED <<suite_vars, smoke_vars, karate_vars>>

JiraNext ==
    \/ ExecuteJira
    \/ ConnectReturn
    \/ GetToolsReturn
    \/ FetchReturn
    \/ NavigateReturn
    \/ ScreenshotReturn
    \/ InstructionReturn
    \/ ScriptReturn

(***************************************************************************)
(* KarateMCPServer.handle_tool_call                                        *)
(***************************************************************************)
\* None as an argument value, and bool(v) of an argument value
PyNone == "None"
IsTrue(v) == v \notin {PyNone, "", "False"}

\* list_tools(): the name of each tool and the "required" list of its schema
ListTools ==
    <<[name |-> "run_karate_test", required |-> {"feature_path"}],
      [name |-> "list_karate_features", required |-> {}],
      [name |-> "get_test_results", required |-> {}]>>

Registered == {ListTools[n].name : n \in DOMAIN ListTools}

\* the required parameters of a registered tool
Required(tool_name) ==
    LET n == CHOOSE m \in DOMAIN ListTools : ListTools[m].name = tool_name
    IN  ListTools[n].required

\* the arguments dict of a call; Absent for a key it does not hold
Arguments(feature_path, tags, glob_pattern, detailed) ==
    [feature_path |-> feature_path, tags |-> tags, pattern |-> glob_pattern,
     detailed |-> detailed]

\* arguments.get(key, default)
ArgGet(arguments, key, default) ==
    IF arguments[key] = Absent THEN default ELSE arguments[key]

\* a Karate JSON report: a list of features, each the list of the statuses
\* of its scenarios; or JSON that is not a list; or no file at all
Report(kind, features) == [kind |-> kind, features |-> features]
NoReport == Report("none", <<>>)

\* a dict returned by a tool; keys names the keys it holds
KarateResult(success, message) ==
    [success |-> success, message |-> message, exit_code |-> Absent,
     count |-> 0, features |-> <<>>, total_scenarios |-> 0,
     passed_scenarios |-> 0, failed_scenarios |-> 0,
     detailed_results |-> NoReport, keys |-> {"success", "message"}]

\* cmd of run_karate_test
Command(feature_path, tags) ==
    <<"mvn", "test">>
    \o (IF IsTrue(feature_path)
        THEN <<"-Dkarate.options=classpath:features/" \o feature_path>> ELSE <<>>)
    \o (IF IsTrue(tags) THEN <<"-Dkarate.options=--tags " \o tags>> ELSE <<>>)

\* how subprocess.run ends: the return code of the process, the timeout, an
\* OSError raised before a process exists, or a UnicodeDecodeError raised
\* while the output of the process that ran is decoded (text=True)
SubprocessOutcomes == {"0", "1", "TimeoutExpired", "OSError", "UnicodeDecodeError"}

\* subprocess.run started a process
ProcessStarted(outcome) == outcome # "OSError"

\* run_karate_test
RunKarateTest(feature_path, tags, outcome) ==
    IF outcome = "TimeoutExpired"
    THEN KarateResult(FALSE, "Test execution timed out after 5 minutes")
    ELSE IF outcome \in {"OSError", "UnicodeDecodeError"}
    THEN KarateResult(FALSE, "Error running test: {str(e)}")
    ELSE [KarateResult(outcome = "0",
                       IF outcome = "0" THEN "Test execution completed"
                       ELSE "Test execution failed")
            EXCEPT !.exit_code = outcome,
                   !.keys = {"success", "exit_code", "stdout", "stderr", "message"}]

\* a feature file: its path under the features directory, its stem, its
\* lines, None for lines when it cannot be read
FeatureFile(path, name, content) == [path |-> path, name |-> name, content |-> content]

\* the features directory: missing, or holding files, or raising on glob
FeaturesDirs == {
    [state |-> "missing", files |-> <<>>],
    [state |-> "error", files |-> <<>>],
    [state |-> "present", files |-> <<
        FeatureFile("users.feature", "users",
            <<<<"Feature:", Space, "users">>,
              <<Space, Space, "Scenario:", Space, "create", Space, "user">>,
              <<Space, Space, "Given", Space, "url">>>>),
        FeatureFile("orders.feature", "orders", <<<<PyNone>>>>)>>] }

\* self.features_dir.glob(search_pattern) yields the path
GlobMatches(search_pattern, path) ==
    \/ search_pattern = "**/*.feature"
    \/ search_pattern = "**/user*.feature" /\ path = "users.feature"

\* the scenarios of a feature file
Scenarios(content) ==
    LET stripped == [n \in DOMAIN content |-> Strip(content[n])]
        named == SelectSeq(stripped, LAMBDA line : StartsWith(line, <<"Scenario:">>))
    IN  [n \in DOMAIN named |-> Strip(Replace(named[n], <<"Scenario:">>, <<>>))]

\* feature_info
FeatureInfo(file) ==
    [path |-> file.path, name |-> file.name,
     scenarios |-> IF file.content = <<<<PyNone>>>> THEN <<>> ELSE Scenarios(file.content),
     has_scenarios |-> file.content # <<<<PyNone>>>>]

\* list_karate_features
ListKarateFeatures(glob_pattern, dir) ==
    LET search_pattern == IF IsTrue(glob_pattern) THEN glob_pattern ELSE "**/*.feature"
        found == SelectSeq(dir.files, LAMBDA file : GlobMatches(search_pattern, file.path))
    IN  IF dir.state = "missing"
        THEN [KarateResult(FALSE, "Features directory not found: {self.features_dir}")
                EXCEPT !.keys = {"success", "message", "features"}]
        ELSE IF dir.state = "error"
        THEN [KarateResult(FALSE, "Error listing features: {str(e)}")
                EXCEPT !.keys = {"success", "message", "features"}]
        ELSE [KarateResult(TRUE, Absent)
                EXCEPT !.count = Len(found),
                       !.features = [n \in DOMAIN found |-> FeatureInfo(found[n])],
                       !.keys = {"success", "count", "features"}]

\* the latest file of karate-reports
ReportFiles == {
    NoReport,
    Report("invalid", <<>>),
    Report("dict", <<>>),
    Report("list", <<<<"passed", "failed">>, <<"passed">>>>) }

\* the statuses of all the scenarios of a report
RECURSIVE Statuses(_)
Statuses(features) ==
    IF features = <<>> THEN <<>> ELSE Head(features) \o Statuses(Tail(features))

\* get_test_results
GetTestResults(detailed, report) ==
    LET statuses == IF report.kind = "list" THEN Statuses(report.features) ELSE <<>>
        passed == Len(SelectSeq(statuses, LAMBDA status : status = "passed"))
    IN  IF report.kind = "none"
        THEN KarateResult(FALSE, "No test results found. Run tests first.")
        ELSE IF report.kind = "invalid"
        THEN KarateResult(FALSE, "Error reading test results: {str(e)}")
        ELSE [KarateResult(TRUE, Absent)
                EXCEPT !.total_scenarios = Len(statuses),
                       !.passed_scenarios = passed,
                       !.failed_scenarios = Len(statuses) - passed,
                       !.detailed_results = IF IsTrue(detailed) THEN report ELSE NoReport,
                       !.keys = {"success", "total_scenarios", "passed_scenarios",
                                 "failed_scenarios", "duration"}
                                \cup (IF IsTrue(detailed) THEN {"detailed_results"} ELSE {})]

\* the names and the arguments the server is called with
CalledNames == Registered \cup {"unknown_tool", "RUN_KARATE_TEST"}
ArgumentDicts == {
    Arguments(Absent, Absent, Absent, Absent),
    Arguments("users.feature", Absent, Absent, Absent),
    Arguments("users.feature", "@smoke", Absent, Absent),
    Arguments("", Absent, "**/user*.feature", Absent),
    Arguments(Absent, Absent, Absent, "True") }

\* the most tool calls that are followed
MaxHandled == 2

KarateInit ==
    /\ handled = <<>>
    /\ processes = <<>>

\* the entry of the log for a call: the implementation it reached ("None"
\* for none) and what it returned
Handled(tool_name, arguments, invoked, ret) ==
    [tool_name |-> tool_name, arguments |-> arguments, invoked |-> invoked, ret |-> ret]

\* a dispatch that sends every name it does not know to the last tool
ImplementationLastByDefault(tool_name) ==
    IF tool_name \in {"run_karate_test", "list_karate_features"}
    THEN tool_name ELSE "get_test_results"

\* the branch of handle_tool_call a name takes: the method it calls, "None"
\* for the else branch
Implementation(tool_name) ==
    IF tool_name = "run_karate_test" THEN "run_karate_test"
    ELSE IF tool_name = "list_karate_features" THEN "list_karate_features"
    ELSE IF tool_name = "get_test_results" THEN "get_test_results"
    ELSE "None"

\* handle_tool_call(tool_name, arguments)
HandleToolCall ==
    /\ Len(handled) < MaxHandled
    /\ \E tool_name \in CalledNames, arguments \in ArgumentDicts :
         IF Implementation(tool_name) = "run_karate_test"
         THEN \E outcome \in SubprocessOutcomes :
                LET feature_path == ArgGet(arguments, "feature_path", PyNone)
                    tags == ArgGet(arguments, "tags", PyNone)
                IN  /\ handled' = Append(handled,
                            Handled(tool_name, arguments, "run_karate_test",
                                    RunKarateTest(feature_path, tags, outcome)))
                    /\ processes' = IF ProcessStarted(outcome)
                                    THEN Append(processes, Command(feature_path, tags))
                                    ELSE processes
         ELSE IF Implementation(tool_name) = "list_karate_features"
         THEN \E dir \in FeaturesDirs :
                /\ handled' = Append(handled,
                        Handled(tool_name, arguments, "list_karate_features",
                                ListKarateFeatures(ArgGet(arguments, "pattern", PyNone), dir)))
                /\ UNCHANGED processes
         ELSE IF Implementation(tool_name) = "get_test_results"
         THEN \E report \in ReportFiles :
                /\ handled' = Append(handled,
                        Handled(tool_name, arguments, "get_test_results",
                                GetTestResults(ArgGet(arguments, "detailed", "False"), report)))
                /\ UNCHANGED processes
         ELSE /\ handled' = Append(handled,
                      Handled(tool_name, arguments, "None",
                              KarateResult(FALSE, "Unknown tool: " \o tool_name)))
              /\ UNCHANGED processes
    /\ UNCHANGED <<suite_vars, smoke_vars, jira_vars, script_vars>>

KarateNext == HandleToolCall

Init == SuiteInit /\ SmokeInit /\ JiraInit /\ ScriptInit /\ KarateInit

SuiteSpec == Init /\ [][SuiteNext]_vars
SmokeSpec == Init /\ [][SmokeNext]_vars
\* execute_jira is followed from an empty generated_scripts directory; the
\* directory that holds a hand-written configuration is followed in ScriptSpec
JiraStart == Init /\ scripts_dir = EmptyDir
JiraSpec == JiraStart /\ [][JiraNext]_vars
ScriptSpec == Init /\ [][ScriptNext]_vars
KarateSpec == Init /\ [][KarateNext]_vars

(***************************************************************************)
(* Properties of execute_full_stack_test_suite                             *)
(***************************************************************************)
\* the handler has returned the execution_results report
ReportReturned == pc = "done" /\ "overall_status" \in suite_ret.keys

\* the status a requested kind reports in its slot of the report
Reports(kind) == Get(execution_results[Slot(kind)], "status")

\* C1: aggregation law.  Whenever the handler has returned and the slot of a
\* requested kind holds a result with status "error", the report's overall
\* status is "failed", whatever the other kinds report and in either mode;
\* when no report is returned at all (an exception escaped) the returned
\* status is "error".
AggregationLaw ==
    (pc = "done" /\ \E k \in KindSet : requested[k] /\ Reports(k) = "error")
    => IF "overall_status" \in suite_ret.keys
       THEN suite_ret.overall_status = "failed"
       ELSE suite_ret.status = "error"

AggregationLawWitness ==
    /\ ReportReturned
    /\ suite_ret.overall_status = "failed"
    /\ \E k, j \in KindSet :
         /\ requested[k] /\ Get(suite_ret[Slot(k)], "status") = "error"
         /\ requested[j] /\ Get(suite_ret[Slot(j)], "status") = "success"

\* C2: the overall status is "success" if and only if every requested kind
\* reports status "success".
SuccessIffAllSucceed ==
    ReportReturned
    => (suite_ret.overall_status = "success"
        <=> \A k \in KindSet : requested[k] => Reports(k) = "success")

\* C3: when no requested kind reports "error" and some requested kind reports
\* a result whose status is not "success", the overall status is
\* "partial_success".
PartialSuccess ==
    (/\ ReportReturned
     /\ \A k \in KindSet : requested[k] => Reports(k) # "error"
     /\ \E k \in KindSet : /\ requested[k]
                           /\ Truthy(execution_results[Slot(k)])
                           /\ Reports(k) # "success")
    => suite_ret.overall_status = "partial_success"

PartialSuccessWitness ==
    /\ ReportReturned
    /\ requested["web"] /\ Get(suite_ret.web_results, "status") = "success"
    /\ requested["api"] /\ Get(suite_ret.api_results, "status") = "failed"
    /\ ~requested["integration"]
    /\ suite_ret.overall_status = "partial_success"

\* C4: in parallel mode a raising runner does not end the call: when the
\* handler returns, every requested kind's runner has run to completion, the
\* slot of a kind whose runner returned holds that runner's own result, and
\* the slot of a kind whose runner raised holds status "error" with the
\* exception's message.
ParallelIsolation ==
    (/\ pc = "done"
     /\ parallel_execution
     /\ \E k \in KindSet : tasks[k].out.t = "raise")
    => \A j \in KindSet :
         requested[j]
         => /\ tasks[j].state = "done"
            /\ IF tasks[j].out.t = "raise"
               THEN /\ Reports(j) = "error"
                    /\ Get(execution_results[Slot(j)], "message") = tasks[j].out.msg
               ELSE execution_results[Slot(j)] = tasks[j].out.v

ParallelIsolationWitness ==
    /\ ReportReturned
    /\ parallel_execution
    /\ tasks["web"].out.t = "raise"
    /\ suite_ret.web_results = Dict({<<"status", "error">>, <<"message", "boom">>})
    /\ tasks["api"].out.t = "return"
    /\ suite_ret.api_results = Dict({<<"status", "failed">>})
    /\ started = <<"api", "web">>

\* C5: in sequential mode the requested runners run one after another in the
\* order web, api, integration, and whatever an earlier runner does (a raised
\* exception included) every later requested runner has run and its result
\* is in its slot when the handler returns.
SequentialIsolation ==
    (pc = "done" /\ ~parallel_execution /\ \E k \in KindSet : tasks[k].state # "none")
    => /\ \A i, j \in DOMAIN started :
            i < j => IndexOf(started[i]) < IndexOf(started[j])
       /\ \A k \in KindSet :
            requested[k]
            => /\ tasks[k].state = "done"
               /\ tasks[k].out.t = "return"
                    => execution_results[Slot(k)] = tasks[k].out.v

(***************************************************************************)
(* Properties of run_smoke_test_suite                                      *)
(***************************************************************************)
TimedOut == smoke_pc = "done" /\ smoke_ret.status = "timeout"

\* C6 as stated: after a timeout the returned report holds the result of
\* every runner that had completed, and marks every other launched runner
\* with status "error" and reason "timeout".
TimeoutKeepsCompleted ==
    TimedOut
    => \A r \in SmokeSet :
         smoke_selected[r]
         => /\ SmokeSlot(r) \in smoke_ret.keys
            /\ IF smoke_tasks[r].state = "done"
               THEN smoke_ret[SmokeSlot(r)] = SmokeSlotValue(smoke_tasks[r].out)
               ELSE smoke_ret[SmokeSlot(r)] = <<"error", "timeout">>

\* C6: when max_execution_time elapses before every gathered runner has
\* finished, run_smoke_test_suite returns only status "timeout" with a
\* message and the environment: the result of a runner that had already
\* completed is not in the returned value, and no runner is marked.
TimeoutDropsResults ==
    TimedOut
    => /\ smoke_ret.keys = {"status", "message", "environment"}
       /\ smoke_ret.api_health_checks = <<>>
       /\ smoke_ret.web_smoke_tests = <<>>
       /\ \E r \in SmokeSet : smoke_tasks[r].state = "cancelled"

TimeoutDropsResultsWitness ==
    /\ TimedOut
    /\ smoke_tasks["api"].state = "done"
    /\ smoke_tasks["api"].out = SmokeReturned(<<"passed", "failed">>)
    /\ smoke_tasks["web"].state = "cancelled"

(***************************************************************************)
(* Properties of execute_jira and execute_jira_instructions                *)
(***************************************************************************)
\* execute_jira_instructions has returned
LoopFinished ==
    \/ jira_pc = "script"
    \/ jira_pc = "done" /\ results.status = "completed" /\ url # <<>>

\* instruction n makes a tool call
MakesCall(n) == NextAwait(<<jira_json[n]>>, 1).i = 1

\* the tool that instruction n calls first, "None" when it calls none
FirstTool(n) == NextAwait(<<jira_json[n]>>, 1).tool

Called(tool, n) ==
    \E k \in DOMAIN dispatches :
        dispatches[k] = Dispatch("call", tool, n)

IsPrefix(s, t) == Len(s) <= Len(t) /\ SubSeq(t, 1, Len(s)) = s

\* the event at position k of the dispatch log is a selector inference for
\* an instruction that returned without a click being dispatched after it
Unresolved(k) ==
    /\ dispatches[k].ev = "return"
    /\ dispatches[k].tool = "extract_selector_by_page_content"
    /\ k < Len(dispatches)
    /\ dispatches[k + 1].tool # "playwright_click"

\* C7: a failing step never aborts the run.  A tool call that raises for an
\* instruction leaves an "error" entry for that instruction in the trace and
\* never turns the run's status into "error", an unresolved selector leaves
\* a "failed" entry, and once the loop has ended every instruction that
\* makes a tool call has made it, whatever failed before it.
StepFailureDoesNotAbort ==
    /\ \A k \in DOMAIN dispatches :
         Unresolved(k)
         => /\ results.status # "error"
            /\ \E m \in DOMAIN results.steps :
                 /\ results.steps[m].i = dispatches[k].i
                 /\ results.steps[m].status = "failed"
    /\ \A k \in DOMAIN dispatches :
         (dispatches[k].ev = "raise" /\ dispatches[k].i > 0)
         => /\ results.status # "error"
            /\ \E m \in DOMAIN results.steps :
                 /\ results.steps[m].i = dispatches[k].i
                 /\ results.steps[m].status = "error"
    /\ LoopFinished
       => \A n \in DOMAIN jira_json :
            LET tool == FirstTool(n)
            IN  tool # "None" => Called(tool, n)

StepFailureDoesNotAbortWitness ==
    /\ jira_pc = "done"
    /\ results.status = "completed"
    /\ \E a, b \in DOMAIN results.steps :
         /\ results.steps[a].i = 1 /\ results.steps[a].status = "error"
         /\ results.steps[b].i = 2 /\ results.steps[b].status = "failed"

\* C8: ordering law.  Every tool call is followed at once by its own return
\* (no call of a later step starts while one is awaited), the calls are made
\* in the order of the instructions, and the entries appended for
\* instructions stand in the trace in the order of their instructions.
OrderingLaw ==
    /\ \A k \in DOMAIN dispatches :
         (dispatches[k].ev = "call" /\ k < Len(dispatches))
         => /\ dispatches[k + 1].ev \in {"return", "raise"}
            /\ dispatches[k + 1].tool = dispatches[k].tool
            /\ dispatches[k + 1].i = dispatches[k].i
    /\ \A k \in DOMAIN dispatches : \A m \in (k + 1)..Len(dispatches) :
         (dispatches[k].i > 0 /\ dispatches[m].i > 0)
         => dispatches[k].i <= dispatches[m].i
    /\ \A a \in DOMAIN results.steps : \A b \in (a + 1)..Len(results.steps) :
         (results.steps[a].i > 0 /\ results.steps[b].i > 0)
         => results.steps[a].i < results.steps[b].i

OrderingLawWitness ==
    /\ jira_pc = "done"
    /\ \E a, b \in DOMAIN results.steps :
         /\ a < b
         /\ results.steps[a].i = 1 /\ results.steps[a].step = "playwright_click"
         /\ results.steps[b].i = 2 /\ results.steps[b].step = "verification_screenshot"
    /\ Called("playwright_click", 1)
    /\ Called("playwright_screenshot", 2)

\* C9: the action trace is append-only: every step of a run of execute_jira
\* leaves results["steps"] as it was or extends it at its end.
TraceAppendOnly == [][IsPrefix(results.steps, results'.steps)]_vars

TraceAppendOnlyWitness ==
    /\ jira_pc = "done"
    /\ Len(results.steps) >= 8

\* instruction n holds both words / holds the screenshot phrase and "click"
MentionsScreenshotAndClick(n) ==
    LET low == Lower(jira_json[n])
    IN  Contains(low, <<"screenshot">>) /\ Contains(low, <<"click">>)

AsksScreenshotAndClick(n) ==
    LET low == Lower(jira_json[n])
    IN  /\ \/ Contains(low, <<"take", Space, "a", Space, "screenshot">>)
           \/ Contains(low, <<"take", Space, "the", Space, "screenshot">>)
        /\ Contains(low, <<"click">>)

\* instruction n was handled as a screenshot: no selector inference and no
\* click was dispatched for it, and once the loop is past it the screenshot
\* tool has been called for it
HandledAsScreenshot(n) ==
    /\ ~Called("extract_selector_by_page_content", n)
    /\ ~Called("playwright_click", n)
    /\ loop_i > n => Called("playwright_screenshot", n)

\* C10 as stated: every step whose text contains both "screenshot" and
\* "click" is handled as a screenshot.
ScreenshotWordBeatsClick ==
    \A n \in DOMAIN jira_json : MentionsScreenshotAndClick(n) => HandledAsScreenshot(n)

\* C10: every step whose text contains "take a screenshot" or "take the
\* screenshot" and also "click" is handled as a screenshot.
ScreenshotPhraseBeatsClick ==
    \A n \in DOMAIN jira_json : AsksScreenshotAndClick(n) => HandledAsScreenshot(n)

ScreenshotPhraseBeatsClickWitness ==
    /\ LoopFinished
    /\ \E n \in DOMAIN jira_json :
         /\ AsksScreenshotAndClick(n)
         /\ Called("playwright_screenshot", n)
         /\ \E m \in DOMAIN results.steps :
              /\ results.steps[m].i = n
              /\ results.steps[m].step = "playwright_screenshot"

\* instruction n holds "navigate to" with a URL and also "click" or "check
\* for", and does not mention a screenshot
NavigatesAndActs(n) ==
    LET low == Lower(jira_json[n])
    IN  /\ Contains(low, <<"navigate", Space, "to">>)
        /\ SearchUrl(jira_json[n], {"]"}) # <<>>
        /\ Contains(low, <<"click">>) \/ Contains(low, <<"check", Space, "for">>)
        /\ ~Contains(low, <<"screenshot">>)

\* C11 as stated: the navigate-to rule comes before the click and check-for
\* rules, so a step with "navigate to" and a URL that also holds "click" or
\* "check for" is handled as a navigation: no selector inference, click or
\* verification screenshot is dispatched for it, and once the loop is past it
\* the navigate tool has been called for it.
NavigateBeatsClickAndCheck ==
    \A n \in DOMAIN jira_json :
        NavigatesAndActs(n)
        => /\ ~Called("extract_selector_by_page_content", n)
           /\ ~Called("playwright_click", n)
           /\ ~Called("playwright_screenshot", n)
           /\ loop_i > n => Called("playwright_navigate", n)

\* C11: the rules are tried in the order screenshot phrase, click, check
\* for, navigate to.  A step with "navigate to" and a URL that also holds
\* "click" or "check for" is never navigated to: with "click" it goes to the
\* click branch (selector inference for its target), otherwise to the
\* verification screenshot.
ClickAndCheckBeatNavigate ==
    \A n \in DOMAIN jira_json :
        NavigatesAndActs(n)
        => /\ ~Called("playwright_navigate", n)
           /\ loop_i > n
              => IF Contains(Lower(jira_json[n]), <<"click">>)
                 THEN /\ ~Called("playwright_screenshot", n)
                      /\ ExtractClickTarget(jira_json[n]) # <<>>
                         => Called("extract_selector_by_page_content", n)
                 ELSE /\ Called("playwright_screenshot", n)
                      /\ ~Called("extract_selector_by_page_content", n)

ClickAndCheckBeatNavigateWitness ==
    /\ LoopFinished
    /\ \E n, m \in DOMAIN jira_json :
         /\ NavigatesAndActs(n) /\ NavigatesAndActs(m)
         /\ Called("extract_selector_by_page_content", n)
         /\ Called("playwright_screenshot", m)
         /\ \E a \in DOMAIN results.steps :
              /\ results.steps[a].i = m
              /\ results.steps[a].step = "verification_screenshot"

\* instruction n matches none of the rules
MatchesNoRule(n) ==
    LET low == Lower(jira_json[n])
    IN  /\ ~Contains(low, <<"screenshot">>)
        /\ ~Contains(low, <<"click">>)
        /\ ~Contains(low, <<"check", Space, "for">>)
        /\ ~Contains(low, <<"navigate", Space, "to">>)

\* the entries of the trace appended for instruction n
RecordsFor(n) == {m \in DOMAIN results.steps : results.steps[m].i = n}

\* a tool call was dispatched for instruction n
DispatchedFor(n) == \E k \in DOMAIN dispatches : dispatches[k].i = n

\* C12 as stated: once the loop has ended every step has exactly one entry
\* in the trace, and a step that matches no rule caused no dispatch and its
\* entry has the outcome "skipped".
UnknownRecordedSkipped ==
    LoopFinished
    => \A n \in DOMAIN jira_json :
         /\ Cardinality(RecordsFor(n)) = 1
         /\ MatchesNoRule(n)
            => /\ ~DispatchedFor(n)
               /\ \A m \in RecordsFor(n) : results.steps[m].status = "skipped"

\* C12: a step that matches no rule causes no dispatch and leaves no entry
\* in the trace; every step leaves at most one entry, and no entry has the
\* outcome "skipped".
UnknownLeavesNoTrace ==
    /\ \A n \in DOMAIN jira_json :
         /\ Cardinality(RecordsFor(n)) <= 1
         /\ MatchesNoRule(n) => ~DispatchedFor(n) /\ RecordsFor(n) = {}
    /\ \A m \in DOMAIN results.steps : results.steps[m].status # "skipped"

UnknownLeavesNoTraceWitness ==
    /\ LoopFinished
    /\ \E n, m \in DOMAIN jira_json :
         /\ n < m
         /\ MatchesNoRule(n) /\ RecordsFor(n) = {}
         /\ Cardinality(RecordsFor(m)) = 1

\* the event at position k of the dispatch log is a selector inference that
\* handed back no selector, or a text that starts with "Error"
NoUsableSelector(k) ==
    /\ dispatches[k].ev = "return"
    /\ dispatches[k].tool = "extract_selector_by_page_content"
    /\ dispatches[k].result \in {"None", "", "Error: no match"}

\* C13: a click step whose selector inference yields no selector or an
\* error-shaped text dispatches no click, leaves exactly one entry in the
\* trace, a failed click, and the run goes on: its status is not "error" and
\* once the loop has ended every later instruction that makes a tool call
\* has made it.
UnusableSelectorFailsStep ==
    \A k \in DOMAIN dispatches :
        NoUsableSelector(k)
        => /\ ~Called("playwright_click", dispatches[k].i)
           /\ Cardinality(RecordsFor(dispatches[k].i)) = 1
           /\ \A m \in RecordsFor(dispatches[k].i) :
                /\ results.steps[m].step = "playwright_click"
                /\ results.steps[m].status = "failed"
           /\ results.status # "error"
           /\ LoopFinished
              => \A n \in DOMAIN jira_json :
                   (n > dispatches[k].i /\ MakesCall(n))
                   => Called(FirstTool(n), n)

UnusableSelectorFailsStepWitness ==
    /\ LoopFinished
    /\ \E k, j \in DOMAIN dispatches :
         /\ NoUsableSelector(k) /\ dispatches[k].result = "Error: no match"
         /\ dispatches[k].i = 1
         /\ NoUsableSelector(j) /\ dispatches[j].result = "None"
         /\ dispatches[j].i = 2

\* execute_jira has returned with the status "completed"
RunCompleted == jira_pc = "done" /\ results.status = "completed"

\* C14 as stated: in every completed run, with or without a primary URL,
\* the action sequence of the run ends with a screenshot action.
FinalScreenshotAlways ==
    RunCompleted
    => /\ actions # <<>>
       /\ actions[Len(actions)].type = "screenshot"

\* C14: whenever a primary URL was found and the instruction loop has
\* ended, whatever the outcomes of its steps, the action sequence handed to
\* the script generation ends with the screenshot action named
\* <jira_key>_final; a run that completes without a primary URL builds no
\* action sequence.
FinalScreenshotWhenUrl ==
    /\ LoopFinished
       => /\ actions # <<>>
          /\ actions[Len(actions)] =
                [Action("screenshot") EXCEPT !.name = "jira_key_final"]
    /\ (RunCompleted /\ url = <<>>) => actions = <<>>

FinalScreenshotWhenUrlWitness ==
    /\ RunCompleted
    /\ url # <<>>
    /\ \E a, b \in DOMAIN results.steps :
         /\ results.steps[a].status = "failed"
         /\ results.steps[b].status = "error"
    /\ actions[Len(actions)].type = "screenshot"

\* C15: whenever the ticket text holds a primary URL and the instruction
\* loop has ended, the action sequence handed to the script generation
\* begins with a navigate action to that URL, also when no step of the
\* ticket is a navigate instruction.
ScriptBeginsWithNavigate ==
    (LoopFinished /\ ExtractUrl(results.jira_description) # <<>>)
    => /\ actions # <<>>
       /\ Head(actions) = [Action("navigate") EXCEPT
                                !.url = ExtractUrl(results.jira_description)]

ScriptBeginsWithNavigateWitness ==
    /\ RunCompleted
    /\ ExtractUrl(results.jira_description) = <<"http://app.test">>
    /\ \A n \in DOMAIN jira_json :
         ~Contains(Lower(jira_json[n]), <<"navigate", Space, "to">>)
    /\ \E m \in DOMAIN results.steps : results.steps[m].step = "playwright_click"
    /\ Len(actions) >= 3
    /\ Head(actions).type = "navigate"

\* C19 as stated: no parsed step is empty, none begins with '#', and none
\* holds the bracket artifact 'Navigate to ['.
ParsedStepsClean ==
    \A n \in DOMAIN jira_json :
        /\ jira_json[n] # <<>>
        /\ Head(jira_json[n]) # "#"
        /\ ~Contains(jira_json[n], <<"Navigate", Space, "to", Space, "[">>)

\* fetch_jira_story has returned one of its error messages
FetchedError == results.jira_description \in ErrorTexts

\* C20 as stated: when fetch_jira_story returns an error message the parser
\* yields no step and no tool is dispatched for a step.
ErrorTextYieldsNoSteps ==
    FetchedError
    => /\ jira_json = <<>>
       /\ \A k \in DOMAIN dispatches : dispatches[k].i = 0

(***************************************************************************)
(* Properties of generate_playwright_script                                *)
(***************************************************************************)
\* a script file without its "Generated on" line
WithoutDate(file) ==
    SelectSeq(file, LAMBDA line : line.t # "// Generated on: {current_date}")

\* C16: the script generation is deterministic.  Any two calls with the same
\* arguments write the same script body, the "Generated on" line aside, and
\* the very same body on the same day, whatever calls were made between
\* them and whatever files the directory held.
ScriptDeterministic ==
    \A a, b \in DOMAIN calls :
        calls[a].request = calls[b].request
        => /\ WithoutDate(calls[a].script_file) = WithoutDate(calls[b].script_file)
           /\ calls[a].current_date = calls[b].current_date
              => calls[a].script_file = calls[b].script_file

ScriptDeterministicWitness ==
    /\ Len(calls) = 3
    /\ calls[1].request = calls[3].request
    /\ calls[1].current_date # calls[3].current_date
    /\ calls[2].request # calls[1].request
    /\ calls[2].script_path = calls[1].script_path
    /\ scripts_dir[ConfigPath] = CustomConfig

\* the code a call of the log was to write
CodeOf(c) ==
    TypescriptCode(Sanitize(c.request.script_name), c.request.url,
                   c.request.actions, c.request.description,
                   c.request.headless, c.current_date)

\* no step changes a runner configuration or a dependency manifest that is
\* there
NeverOverwritten ==
    \A path \in {ConfigPath, PackagePath} :
        scripts_dir[path] # NoFile => scripts_dir'[path] = scripts_dir[path]

JiraScriptPath == ScriptPath(Sanitize(JiraRequest(<<>>, <<>>).script_name))

ScriptGenerated ==
    /\ RunCompleted
    /\ \E m \in DOMAIN results.steps :
         /\ results.steps[m].step = "generate_playwright_script"
         /\ results.steps[m].status = "success"

\* the entries of a script: the comment lines that open the code of an action
ActionComments == {
    "    // Navigate to URL", "    // Click element", "    // Fill form field",
    "    // Take screenshot", "    // Select dropdown option",
    "    // Wait for specified timeout", "    // Assert element state" }

ScriptEntries(file) == Cardinality({k \in DOMAIN file : file[k].t \in ActionComments})

\* the entries of the trace appended for instructions
InstructionRecords == {m \in DOMAIN results.steps : results.steps[m].i > 0}

Unsuccessful(m) == results.steps[m].status \in {"failed", "failure", "error", "skipped"}

\* a line of the file names the instruction or the target of the entry
Mentioned(file, record) ==
    \E k \in DOMAIN file :
        \E j \in DOMAIN file[k].args :
            file[k].args[j] \in {record.instruction, record.target}

\* C18 as stated: the script keeps every entry of the trace.  It has one
\* entry per instruction entry of the trace (beside the opening navigation
\* and the final screenshot), and an entry that failed is still named in it.
FailuresKeptInScript ==
    ScriptGenerated
    => /\ ScriptEntries(scripts_dir[JiraScriptPath]) = 2 + Cardinality(InstructionRecords)
       /\ \A m \in InstructionRecords :
            Unsuccessful(m) => Mentioned(scripts_dir[JiraScriptPath], results.steps[m])

\* C18: the script holds the opening navigation, one click per successful
\* click of the trace, and the final screenshot; an entry of the trace that
\* failed is named nowhere in it.
OnlySuccessfulClicksInScript ==
    ScriptGenerated
    => /\ ScriptEntries(scripts_dir[JiraScriptPath]) =
            2 + Cardinality({m \in DOMAIN results.steps :
                                /\ results.steps[m].step = "playwright_click"
                                /\ results.steps[m].status = "success"})
       /\ \A m \in InstructionRecords :
            Unsuccessful(m) => ~Mentioned(scripts_dir[JiraScriptPath], results.steps[m])

OnlySuccessfulClicksInScriptWitness ==
    /\ ScriptGenerated
    /\ ScriptEntries(scripts_dir[JiraScriptPath]) = 3
    /\ \E a, b \in InstructionRecords :
         /\ results.steps[a].step = "playwright_click"
         /\ results.steps[a].status = "success"
         /\ results.steps[b].status = "failed"

(***************************************************************************)
(* Claims about KarateMCPServer.handle_tool_call                           *)
(***************************************************************************)
\* the calls of the log that name the tool
CallsOf(tool_name) == {k \in DOMAIN handled : handled[k].tool_name = tool_name}

\* the call passes no argument at all
NoArguments(k) == handled[k].arguments = Arguments(Absent, Absent, Absent, Absent)

\* C21: a call whose tool name is not among list_tools() returns
\* success = false with the message "Unknown tool: <name>" and reaches no
\* implementation (so only run_karate_test calls can have started a
\* process), and a call of a registered tool that has no required argument
\* reaches the implementation of that tool.
UnknownToolRejected ==
    /\ \A k \in DOMAIN handled :
         /\ handled[k].tool_name \notin Registered =>
              /\ handled[k].ret.success = FALSE
              /\ handled[k].ret.message = "Unknown tool: " \o handled[k].tool_name
              /\ handled[k].ret.keys = {"success", "message"}
              /\ handled[k].invoked = "None"
         /\ (handled[k].tool_name \in Registered /\ Required(handled[k].tool_name) = {}) =>
              handled[k].invoked = handled[k].tool_name
    /\ Len(processes) <= Cardinality(CallsOf("run_karate_test"))

\* an unknown name was rejected, and get_test_results was reached with no
\* argument at all and succeeded
UnknownAndRegisteredCalled ==
    /\ \E k \in CallsOf("unknown_tool") : handled[k].invoked = "None"
    /\ \E k \in CallsOf("get_test_results") :
         NoArguments(k) /\ handled[k].ret.success = TRUE

\* the required parameters the call of a registered tool leaves out
MissingRequired(k) ==
    {key \in Required(handled[k].tool_name) : handled[k].arguments[key] = Absent}

\* C22: a call of a registered tool that leaves out a parameter its schema
\* requires is rejected with an invalid-argument error before any
\* collaborator is reached: it reaches no implementation, returns
\* success = false, and no test process has been started while every call
\* of run_karate_test so far left out feature_path.
MissingRequiredRejected ==
    /\ \A k \in DOMAIN handled :
         (handled[k].tool_name \in Registered /\ MissingRequired(k) # {}) =>
              /\ handled[k].invoked = "None"
              /\ handled[k].ret.success = FALSE
    /\ (\A k \in CallsOf("run_karate_test") : MissingRequired(k) # {}) =>
         processes = <<>>

(***************************************************************************)
(* Claims about the dispatches of the instruction loop                     *)
(***************************************************************************)
\* the tool was dispatched for step n at position k of the log
CallAt(k, tool, n) == dispatches[k] = Dispatch("call", tool, n)

\* C23: within one run no tool is dispatched twice for the same step (so a
\* step has at most one selector inference and at most one dispatch of each
\* automation tool), and after a dispatch of a step has failed nothing is
\* dispatched for that step any more: every later dispatch is for a later
\* step or is the script generation.
NoRetries ==
    \A k \in DOMAIN dispatches : \A m \in (k + 1)..Len(dispatches) :
        (dispatches[k].i >= 1 /\ dispatches[m].ev = "call") =>
            /\ ~ /\ dispatches[k].ev = "call"
                 /\ dispatches[m].i = dispatches[k].i
                 /\ dispatches[m].tool = dispatches[k].tool
            /\ dispatches[k].ev = "raise" =>
                 \/ dispatches[m].i > dispatches[k].i
                 \/ dispatches[m] = Dispatch("call", "generate_playwright_script", 0)

\* a dispatch of step 1 failed and a tool was dispatched for step 2
NoRetriesWitness ==
    /\ \E k \in DOMAIN dispatches : dispatches[k].ev = "raise" /\ dispatches[k].i = 1
    /\ \E m \in DOMAIN dispatches : dispatches[m].ev = "call" /\ dispatches[m].i = 2

\* the branch the loop takes for step n
BranchOf(n) == Classify(Strip(jira_json[n]))

\* the selector inference of step n has returned before position k of the log
InferredBefore(k, n) ==
    \E j \in 1..(k - 1) :
        /\ dispatches[j].ev = "return"
        /\ dispatches[j].tool = "extract_selector_by_page_content"
        /\ dispatches[j].i = n

\* C24 as stated: for every step classified as click or "check for", no
\* click and no screenshot is dispatched for the step before a selector
\* inference for the step has returned.
InferenceBeforeAutomation ==
    \A k \in DOMAIN dispatches :
        (/\ dispatches[k].ev = "call"
         /\ dispatches[k].i >= 1
         /\ dispatches[k].tool \in {"playwright_click", "playwright_screenshot"}
         /\ BranchOf(dispatches[k].i) \in {"click", "check for"}) =>
            InferredBefore(k, dispatches[k].i)

\* C24, amended: a click is dispatched for a step only after the selector
\* inference of that step has returned a usable selector; and when the loop
\* has ended, every click step with a target has had its selector inference
\* dispatched, and for a "check for" step the only dispatch was the
\* verification screenshot, with no selector inference.
InferenceBeforeClick ==
    /\ \A k \in DOMAIN dispatches :
         (dispatches[k].ev = "call" /\ dispatches[k].tool = "playwright_click") =>
            /\ BranchOf(dispatches[k].i) = "click"
            /\ \E j \in 1..(k - 1) :
                 /\ dispatches[j].ev = "return"
                 /\ dispatches[j].tool = "extract_selector_by_page_content"
                 /\ dispatches[j].i = dispatches[k].i
                 /\ dispatches[j].result \notin {"None", "", "Error: no match"}
    /\ jira_pc = "script" =>
         \A n \in DOMAIN jira_json :
            LET branch == BranchOf(n)
            IN  /\ (/\ branch = "click"
                     /\ ExtractClickTarget(Strip(jira_json[n])) # <<>>) =>
                       Called("extract_selector_by_page_content", n)
                /\ branch = "check for" =>
                       /\ Called("playwright_screenshot", n)
                       /\ \A k \in DOMAIN dispatches :
                             dispatches[k].i = n =>
                                dispatches[k].tool = "playwright_screenshot"

\* a click was dispatched for step 1 after its selector inference, and the
\* verification screenshot of the "check for" step 2 was dispatched
InferenceBeforeClickWitness ==
    /\ Called("playwright_click", 1)
    /\ Len(jira_json) >= 2
    /\ BranchOf(2) = "check for"
    /\ Called("playwright_screenshot", 2)

(***************************************************************************)
(* Claims about the result slots of execute_full_stack_test_suite          *)
(***************************************************************************)
\* the parallel branch has gathered its runners and processed the results
GatherProcessed ==
    /\ pc = "done"
    /\ parallel_execution
    /\ \A k \in KindSet : requested[k] => tasks[k].state = "done"

\* C25: in parallel mode, for each of the 8 combinations of the three run
\* flags, once the results are processed the slot of every requested kind
\* holds the outcome of that kind's own runner (its returned value, or the
\* error dict made of its exception) and the slot of every kind that was
\* not requested is None; the returned report holds the same slots.
SlotsHoldOwnOutcome ==
    GatherProcessed =>
        \A k \in KindSet :
            /\ execution_results[Slot(k)] =
                  IF requested[k] THEN SlotValue(tasks[k].out) ELSE None
            /\ ReportReturned => suite_ret[Slot(k)] = execution_results[Slot(k)]

\* web was not requested, and api and integration ended differently: each
\* slot holds its own runner's outcome and the web slot is None
SlotsHoldOwnOutcomeWitness ==
    /\ GatherProcessed
    /\ ReportReturned
    /\ ~requested["web"] /\ requested["api"] /\ requested["integration"]
    /\ tasks["api"].out = Returned(Dict({<<"status", "failed">>}))
    /\ tasks["integration"].out = Raised("boom")
    /\ suite_ret.web_results = None
    /\ suite_ret.api_results = Dict({<<"status", "failed">>})
    /\ suite_ret.integration_results = Dict({<<"status", "error">>, <<"message", "boom">>})

(***************************************************************************)
(* Claims about the end of execute_jira                                    *)
(***************************************************************************)
\* fetch_jira_story has returned and no primary URL was found in its text
NoUrlFound ==
    /\ \E k \in DOMAIN dispatches : dispatches[k] = Dispatch("return", "fetch_jira_story", 0)
    /\ url = <<>>

\* the entries of the trace with the step name
RecordsOf(step) == {m \in DOMAIN results.steps : results.steps[m].step = step}

\* C26: when no primary URL is found in the ticket text, no tool other than
\* the ticket fetch is dispatched, no entry of the trace belongs to a parsed
\* step, no script is generated (no action list is built, the script tool
\* is not called, no file is written), the trace holds exactly one
\* url_extraction entry, which is its last entry and has status "failure",
\* and the run has returned with status "completed".
NoUrlNoAutomation ==
    NoUrlFound =>
        /\ \A k \in DOMAIN dispatches : dispatches[k].tool = "fetch_jira_story"
        /\ \A m \in DOMAIN results.steps : results.steps[m].i = 0
        /\ RecordsOf("generate_playwright_script") = {}
        /\ actions = <<>>
        /\ calls = <<>>
        /\ scripts_dir[JiraScriptPath] = NoFile
        /\ RecordsOf("url_extraction") = {Len(results.steps)}
        /\ results.steps[Len(results.steps)].status = "failure"
        /\ RunCompleted

\* a ticket without URL whose text was parsed into two steps
NoUrlNoAutomationWitness ==
    /\ NoUrlFound
    /\ Len(jira_json) = 2
    /\ BranchOf(1) = "click"
    /\ RunCompleted

\* the entries of the trace that are replayed in the script: click, fill,
\* hover and select entries that carry a selector
Replayed ==
    SelectSeq(results.steps,
              LAMBDA record :
                  /\ record.step \in {"playwright_click", "playwright_fill",
                                      "playwright_hover", "playwright_select"}
                  /\ record.selector # Absent)

\* the type of the action made of an entry: a hover is replayed as a click
ActionType(record) ==
    IF record.step = "playwright_fill" THEN "fill"
    ELSE IF record.step = "playwright_select" THEN "select"
    ELSE "click"

\* C27: the action list handed to generate_playwright_script is one
\* navigate to the primary URL, then one action for each click, fill, hover
\* or select entry of the trace that carries a selector, in the order of
\* the trace and with the selector of its entry, then one screenshot named
\* <jira_key>_final: the navigate, screenshot and verification entries of
\* the steps and the failed clicks add no action.
ActionsAreReplayedEntries ==
    LoopFinished =>
        /\ Len(actions) = Len(Replayed) + 2
        /\ actions[1] = [Action("navigate") EXCEPT !.url = url]
        /\ actions[Len(actions)] = [Action("screenshot") EXCEPT !.name = "jira_key_final"]
        /\ \A j \in DOMAIN Replayed :
             /\ actions[j + 1].type = ActionType(Replayed[j])
             /\ actions[j + 1].selector = Replayed[j].selector

\* a run with a successful click and a verification screenshot, whose
\* action list is the navigate, the click and the final screenshot
ActionsAreReplayedEntriesWitness ==
    /\ RunCompleted
    /\ Len(actions) = 3
    /\ \E a, b \in DOMAIN results.steps :
         /\ results.steps[a].step = "playwright_click"
         /\ results.steps[a].status = "success"
         /\ results.steps[a].selector = actions[2].selector
         /\ results.steps[b].step = "verification_screenshot"

(***************************************************************************)
(* Claims about the health reported by run_smoke_test_suite                *)
(***************************************************************************)
\* the handler has returned smoke_results
SmokeReported == smoke_pc = "done" /\ "overall_health" \in smoke_ret.keys

\* C28: a call with parallel_execution = false runs none of the selected
\* runners (their coroutines are created and never awaited) and returns
\* smoke_results with overall_health "healthy" and both result lists empty.
SequentialSmokeRunsNothing ==
    (smoke_pc = "done" /\ ~smoke_parallel) =>
        /\ \A r \in SmokeSet : smoke_tasks[r].state \in {"none", "pending"}
        /\ SmokeReported
        /\ smoke_ret.overall_health = "healthy"
        /\ smoke_ret.api_health_checks = <<>>
        /\ smoke_ret.web_smoke_tests = <<>>

\* a sequential call with both runners selected has returned
SequentialSmokeRunsNothingWitness ==
    /\ smoke_pc = "done"
    /\ ~smoke_parallel
    /\ \A r \in SmokeSet : smoke_selected[r] /\ smoke_tasks[r].state = "pending"
    /\ smoke_ret.overall_health = "healthy"

\* the statuses of all the check entries of the returned lists
CollectedStatuses ==
    {smoke_ret.api_health_checks[n] : n \in DOMAIN smoke_ret.api_health_checks}
    \cup {smoke_ret.web_smoke_tests[n] : n \in DOMAIN smoke_ret.web_smoke_tests}

\* the runner was gathered and raised
SmokeRunnerRaised(r) == smoke_tasks[r].state = "done" /\ smoke_tasks[r].out.t = "raise"

\* C29: in the returned smoke_results the list of a selected runner that
\* raised is empty, overall_health is "unhealthy" exactly when some entry
\* of the two lists has a status other than "passed", and a run in which
\* every selected runner raised is reported "healthy".
RaisedRunnerCountsAsHealthy ==
    SmokeReported =>
        /\ \A r \in SmokeSet : SmokeRunnerRaised(r) => smoke_ret[SmokeSlot(r)] = <<>>
        /\ smoke_ret.overall_health = "unhealthy"
              <=> \E status \in CollectedStatuses : status # "passed"
        /\ (\A r \in SmokeSet : smoke_selected[r] => SmokeRunnerRaised(r)) =>
              smoke_ret.overall_health = "healthy"

\* both runners were selected and gathered, both raised, and the run is
\* reported healthy
RaisedRunnerCountsAsHealthyWitness ==
    /\ SmokeReported
    /\ smoke_parallel
    /\ \A r \in SmokeSet : smoke_selected[r] /\ SmokeRunnerRaised(r)
    /\ smoke_ret.overall_health = "healthy"

\* an exception escaped connect, the tool listing, the ticket fetch, the
\* navigation to the primary URL or the first screenshot: the entry of a
\* connect or a tool listing that returned is missing from the trace, or
\* the log holds the raise of one of the three tool calls
SeedRaised ==
    \/ RecordsOf("connect") = {}
    \/ RecordsOf("get_tools") = {}
    \/ \E k \in DOMAIN dispatches :
         /\ dispatches[k].ev = "raise"
         /\ dispatches[k].i = 0
         /\ dispatches[k].tool \in {"fetch_jira_story", "playwright_navigate",
                                    "playwright_screenshot"}

\* the call of generate_playwright_script raised
ScriptRaised ==
    \E k \in DOMAIN dispatches :
        dispatches[k] = Dispatch("raise", "generate_playwright_script", 0)

\* C30: when execute_jira has returned, the status of its result is
\* "completed" or "error" and never "started"; it is "error" exactly when
\* an exception escaped connect, the tool listing, the ticket fetch, the
\* seed navigate or the seed screenshot; and when the script generation
\* raised, the status is "completed" and the trace ends with the one
\* generate_playwright_script entry, whose status is "error".
TerminalStatus ==
    jira_pc = "done" =>
        /\ results.status \in {"completed", "error"}
        /\ results.status = "error" <=> SeedRaised
        /\ ScriptRaised =>
             /\ results.status = "completed"
             /\ RecordsOf("generate_playwright_script") = {Len(results.steps)}
             /\ results.steps[Len(results.steps)].status = "error"

\* a run whose script generation raised after a step had raised, and which
\* returned "completed"
TerminalStatusWitness ==
    /\ jira_pc = "done"
    /\ ScriptRaised
    /\ RecordsOf("instruction_execution") # {}
    /\ results.status = "completed"

====
